---- MODULE Spec2Model ----
(***************************************************************************)
(* Retrieval-and-answer pipeline of the campus resource assistant          *)
(* (back end/app/gemini.py and its routers).                               *)
(*                                                                         *)
(* Text is a sequence of one-character strings, so that lower(), strip(),  *)
(* split() and the substring tests of the code are computed, not assumed.  *)
(* None is the one-element sequence <<"None">>, which no text equals.      *)
(* A float is kept exact as a numerator over a denominator.                *)
(***************************************************************************)
EXTENDS Integers, Sequences, FiniteSets, TLC

VARIABLES
    resources,         \* the MongoDB collection university_resources.resources, in store order
    next_id,           \* the next ObjectId the store hands out
    embedding_model,   \* TRUE when the sentence-transformer model was loaded at import
    GEMINI_AVAILABLE,  \* TRUE when the Gemini API was configured at import
    mongodb_url,       \* TRUE when MONGODB_URL is set in the environment
    embed_log,         \* the generate_embedding calls made so far, oldest first
    questions,         \* the rows of the PostgreSQL table questions, in insertion order
    search_logs,       \* the rows of the PostgreSQL table search_logs, in insertion order
    question_seq,      \* the next value of the questions id sequence and of its clock
    asked,             \* the ask requests answered so far, oldest first
    last,              \* the call that returned last, with its arguments and outcome
    requests           \* the HTTP requests the server process has received, oldest first

vars == <<resources, next_id, embedding_model, GEMINI_AVAILABLE, mongodb_url, embed_log,
          questions, search_logs, question_seq, asked, last, requests>>

\* the relational tables and what the model remembers of the requests
relational == <<questions, search_logs, question_seq, asked>>

----------------------------------------------------------------------------
(* Bounds of the model *)

MaxDocs == 3
MaxLimit == 2
MaxCalls == 2

----------------------------------------------------------------------------
(* Python str operations *)

None == <<"None">>

UpperCase == <<"A","B","C","D","E","F","G","H","I","J","K","L","M","N","O","P","Q","R","S","T","U","V","W","X","Y","Z">>
LowerCase == <<"a","b","c","d","e","f","g","h","i","j","k","l","m","n","o","p","q","r","s","t","u","v","w","x","y","z">>

LowerChar(c) ==
    IF \E i \in 1..Len(UpperCase) : UpperCase[i] = c
    THEN LowerCase[CHOOSE i \in 1..Len(UpperCase) : UpperCase[i] = c]
    ELSE c

\* str.lower()
Lower(s) == [i \in 1..Len(s) |-> LowerChar(s[i])]

IsSpace(c) == c = " "

RECURSIVE LStrip(_)
LStrip(s) == IF s # <<>> /\ IsSpace(Head(s)) THEN LStrip(Tail(s)) ELSE s

RECURSIVE RStrip(_)
RStrip(s) == IF s # <<>> /\ IsSpace(s[Len(s)]) THEN RStrip(SubSeq(s, 1, Len(s) - 1)) ELSE s

\* str.strip()
Strip(s) == RStrip(LStrip(s))

RECURSIVE SplitFrom(_, _, _)
SplitFrom(s, word, acc) ==
    IF s = <<>>
    THEN IF word = <<>> THEN acc ELSE Append(acc, word)
    ELSE IF IsSpace(Head(s))
         THEN SplitFrom(Tail(s), <<>>, IF word = <<>> THEN acc ELSE Append(acc, word))
         ELSE SplitFrom(Tail(s), Append(word, Head(s)), acc)

\* str.split() with no separator: the whitespace-delimited words
Split(s) == SplitFrom(s, <<>>, <<>>)

\* needle in hay
Contains(hay, needle) ==
    \E i \in 0..(Len(hay) - Len(needle)) : SubSeq(hay, i + 1, i + Len(needle)) = needle

\* any(p in text for p in phrases)
ContainsAny(text, phrases) == \E p \in phrases : Contains(text, p)

\* " ".join(words)
RECURSIVE Join(_)
Join(words) ==
    IF words = <<>> THEN <<>>
    ELSE IF Len(words) = 1 THEN words[1]
    ELSE words[1] \o <<" ">> \o Join(Tail(words))

Min(a, b) == IF a <= b THEN a ELSE b

----------------------------------------------------------------------------
(* generate_embedding *)

EmbeddingDim == 384
DigestLen == 16
ByteMax == 255

\* hashlib.md5(text.encode()).digest() of the texts the model embeds
MD5 ==
       (<<>> :> <<212,29,140,217,143,0,178,4,233,128,9,152,236,248,66,126>>)   \* md5('')
    @@ (<<"g","y","m">> :> <<228,216,31,19,249,111,185,188,144,95,74,216,150,21,3,43>>)   \* md5('gym')
    @@ (<<"h","e","l","l","o">> :> <<93,65,64,42,188,75,42,118,185,113,157,145,16,23,197,146>>)   \* md5('hello')
    @@ (<<"c","o","u","r","t","s">> :> <<241,184,15,139,158,186,103,130,198,124,153,174,82,109,79,150>>)   \* md5('courts')
    @@ (<<"W","h","a","t"," ","i","s"," ","p","h","o","t","o","s","y","n","t","h","e","s","i","s","?">> :> <<157,248,241,205,25,232,182,71,122,121,46,148,86,157,204,178>>)   \* md5('What is photosynthesis?')
    @@ (<<"W","h","a","t"," ","f","i","t","n","e","s","s"," ","p","r","o","g","r","a","m","s"," ","a","r","e"," ","a","v","a","i","l","a","b","l","e","?">> :> <<218,253,106,140,211,85,101,218,221,238,243,3,73,246,104,129>>)   \* md5('What fitness programs are available?')
    @@ (<<"O","p","e","n"," ","P","l","a","y"," ","C","o","u","r","t","s"," ","C","o","u","r","t","s">> :> <<105,38,22,137,132,238,176,114,232,56,48,103,25,85,2,22>>)   \* md5('Open Play Courts Courts')
    @@ (<<"O","p","e","n"," ","P","l","a","y"," ","C","o","u","r","t","s"," ">> :> <<101,6,9,202,131,177,42,13,95,161,130,194,251,20,124,186>>)   \* md5('Open Play Courts ')
    @@ (<<"O","p","e","n"," ","P","l","a","y"," ","C","o","u","r","t","s"," ","g","y","m"," ","a","n","d"," ","f","i","t","n","e","s","s">> :> <<165,66,167,70,27,204,0,63,35,210,9,202,153,43,61,237>>)   \* md5('Open Play Courts gym and fitness')
    @@ (<<"O","p","e","n"," ","P","l","a","y"," ","C","o","u","r","t","s"," ","H","o","u","r","s">> :> <<116,36,12,28,60,178,149,131,190,122,201,36,59,115,49,139>>)   \* md5('Open Play Courts Hours')
    @@ (<<"G","y","m"," ","C","o","u","r","t","s">> :> <<139,53,194,89,14,223,131,128,141,223,216,198,213,199,44,82>>)   \* md5('Gym Courts')
    @@ (<<"G","y","m"," ">> :> <<215,184,74,133,223,47,17,209,83,50,82,168,222,118,72,105>>)   \* md5('Gym ')
    @@ (<<"G","y","m"," ","g","y","m"," ","a","n","d"," ","f","i","t","n","e","s","s">> :> <<132,133,96,60,111,178,72,62,116,178,232,229,165,249,93,126>>)   \* md5('Gym gym and fitness')
    @@ (<<"G","y","m"," ","H","o","u","r","s">> :> <<155,149,187,214,115,118,17,1,49,6,200,243,79,108,226,221>>)   \* md5('Gym Hours')
    @@ (<<"F","i","t","n","e","s","s"," ","C","e","n","t","e","r"," ","C","o","u","r","t","s">> :> <<123,176,71,8,174,7,45,187,34,141,185,239,109,254,38,164>>)   \* md5('Fitness Center Courts')
    @@ (<<"F","i","t","n","e","s","s"," ","C","e","n","t","e","r"," ">> :> <<78,57,246,213,206,196,197,107,183,229,106,156,214,144,35,238>>)   \* md5('Fitness Center ')
    @@ (<<"F","i","t","n","e","s","s"," ","C","e","n","t","e","r"," ","g","y","m"," ","a","n","d"," ","f","i","t","n","e","s","s">> :> <<231,245,89,85,40,1,54,53,123,68,32,125,101,139,47,190>>)   \* md5('Fitness Center gym and fitness')
    @@ (<<"F","i","t","n","e","s","s"," ","C","e","n","t","e","r"," ","H","o","u","r","s">> :> <<192,216,188,31,61,195,240,46,91,193,87,19,219,90,19,39>>)   \* md5('Fitness Center Hours')
    @@ (<<"G","y","m"," ","H","o","u","r","s"," ","C","o","u","r","t","s">> :> <<3,255,18,66,247,230,160,204,8,113,13,181,87,186,252,53>>)   \* md5('Gym Hours Courts')
    @@ (<<"G","y","m"," ","H","o","u","r","s"," ">> :> <<38,42,94,92,43,241,232,87,180,206,136,79,214,34,150,18>>)   \* md5('Gym Hours ')
    @@ (<<"G","y","m"," ","H","o","u","r","s"," ","g","y","m"," ","a","n","d"," ","f","i","t","n","e","s","s">> :> <<155,194,145,130,132,246,185,199,231,181,60,108,115,204,87,66>>)   \* md5('Gym Hours gym and fitness')
    @@ (<<"G","y","m"," ","H","o","u","r","s"," ","H","o","u","r","s">> :> <<111,122,139,25,30,120,135,140,126,113,107,219,150,87,61,131>>)   \* md5('Gym Hours Hours')
    @@ (<<" ","C","o","u","r","t","s">> :> <<71,143,38,102,172,72,150,107,211,153,155,53,79,148,31,77>>)   \* md5(' Courts')
    @@ (<<" ">> :> <<114,21,238,156,125,157,194,41,210,146,26,64,232,153,236,95>>)   \* md5(' ')
    @@ (<<" ","g","y","m"," ","a","n","d"," ","f","i","t","n","e","s","s">> :> <<212,231,18,224,248,96,163,148,48,71,132,83,49,160,209,127>>)   \* md5(' gym and fitness')
    @@ (<<" ","H","o","u","r","s">> :> <<214,139,13,176,123,119,106,75,125,129,255,191,188,231,158,61>>)   \* md5(' Hours')

hash_bytes(text) == MD5[text]

\* mutant: one component per digest byte, the digest is not cycled over
FallbackEmbedding_digest_only(text) == [num |-> hash_bytes(text), den |-> ByteMax]

\* [float(hash_bytes[i % len(hash_bytes)]) / 255.0 for i in range(384)]
FallbackEmbedding(text) ==
    [num |-> [i \in 1..EmbeddingDim |-> hash_bytes(text)[((i - 1) % DigestLen) + 1]],
     den |-> ByteMax]

\* [0.0] * 384
ZeroVector == [num |-> [i \in 1..EmbeddingDim |-> 0], den |-> 1]

NoVector == [num |-> <<>>, den |-> 1]

\* what embedding_model.encode(text) can do: raise, or return the 384 floats
\* of all-MiniLM-L6-v2 (a sample with components of both signs)
ModelVector == [num |-> [i \in 1..EmbeddingDim |-> IF i % 2 = 0 THEN 0 - 1 ELSE 1], den |-> 16]
EncodeOutcomes == {[ok |-> FALSE, value |-> NoVector], [ok |-> TRUE, value |-> ModelVector]}

\* the outcome of generate_embedding(text): the vector returned, or the exception raised
generate_embedding(text, encode) ==
    IF ~embedding_model
    THEN [raised |-> FALSE, value |-> FallbackEmbedding(text)]
    ELSE IF text = <<>>
         THEN [raised |-> FALSE, value |-> ZeroVector]
         ELSE IF encode.ok
              THEN [raised |-> FALSE, value |-> encode.value]
              ELSE [raised |-> TRUE, value |-> NoVector]

NoCall == [op |-> "none"]

----------------------------------------------------------------------------
(* The document store *)

\* the request bodies of the ingestion endpoints (ResourceCreate): description
\* and category are optional and default to None
ResourceInputs == {
    [title |-> <<"O","p","e","n"," ","P","l","a","y"," ","C","o","u","r","t","s">>, description |-> <<"C","o","u","r","t","s">>, url |-> <<"u","1">>,
     category |-> <<"F","i","t","n","e","s","s">>, tags |-> <<>>],
    [title |-> <<"G","y","m">>, description |-> None, url |-> <<"u","2">>,
     category |-> <<"F","i","t","n","e","s","s">>, tags |-> << <<"g","y","m">> >>],
    [title |-> <<"F","i","t","n","e","s","s"," ","C","e","n","t","e","r">>, description |-> <<"g","y","m"," ","a","n","d"," ","f","i","t","n","e","s","s">>, url |-> <<"u","3">>,
     category |-> <<"F","i","t","n","e","s","s">>, tags |-> << <<"f","i","t","n","e","s","s">> >>],
    [title |-> <<"G","y","m"," ","H","o","u","r","s">>, description |-> <<"H","o","u","r","s">>, url |-> <<"u","4">>,
     category |-> <<"I","n","f","o">>, tags |-> <<>>] }

\* x or ''
OrEmpty(x) == IF x = None THEN <<>> ELSE x

\* f"{title} {description or ''}"
combined_text(title, description) == title \o <<" ">> \o OrEmpty(description)

\* the document store_resource_with_embedding builds
mongodb_doc(id, r, embedding) ==
    [_id |-> id, title |-> r.title, description |-> r.description, url |-> r.url,
     category |-> r.category, tags |-> r.tags, owner_id |-> None, is_public |-> TRUE,
     embedding |-> embedding]

\* store_resource_with_embedding: the embedding is computed first; an exception
\* anywhere (encode raising, the store unreachable) is caught and None returned
StoreResource ==
    /\ last = NoCall
    /\ Len(resources) < MaxDocs
    /\ \E r \in ResourceInputs, encode \in EncodeOutcomes, reachable \in BOOLEAN :
         LET e == generate_embedding(combined_text(r.title, r.description), encode)
             stored == ~e.raised /\ mongodb_url /\ reachable
         IN
         /\ resources' = IF stored THEN Append(resources, mongodb_doc(next_id, r, e.value))
                         ELSE resources
         /\ next_id' = IF stored THEN next_id + 1 ELSE next_id
         /\ last' = [op |-> "store", title |-> r.title, stored |-> stored,
                     id |-> IF stored THEN next_id ELSE 0]
    /\ UNCHANGED <<requests, embedding_model, GEMINI_AVAILABLE, mongodb_url, embed_log, relational>>

----------------------------------------------------------------------------
(* search_similar_resources *)

category_mappings ==
       (<<"f","i","t","n","e","s","s">> :> <<"F","i","t","n","e","s","s">>)
    @@ (<<"g","y","m">> :> <<"F","i","t","n","e","s","s">>)
    @@ (<<"e","x","e","r","c","i","s","e">> :> <<"F","i","t","n","e","s","s">>)
    @@ (<<"w","o","r","k","o","u","t">> :> <<"F","i","t","n","e","s","s">>)
    @@ (<<"s","p","o","r","t","s">> :> <<"F","i","t","n","e","s","s">>)
    @@ (<<"m","e","n","t","a","l">> :> <<"M","e","n","t","a","l"," ","H","e","a","l","t","h">>)
    @@ (<<"c","o","u","n","s","e","l","i","n","g">> :> <<"M","e","n","t","a","l"," ","H","e","a","l","t","h">>)
    @@ (<<"t","h","e","r","a","p","y">> :> <<"M","e","n","t","a","l"," ","H","e","a","l","t","h">>)
    @@ (<<"l","i","b","r","a","r","y">> :> <<"L","i","b","r","a","r","y">>)
    @@ (<<"t","u","t","o","r","i","n","g">> :> <<"E","d","u","c","a","t","i","o","n"," ","a","n","d"," ","A","c","a","d","e","m","i","c"," ","H","e","l","p">>)
    @@ (<<"a","c","a","d","e","m","i","c">> :> <<"E","d","u","c","a","t","i","o","n"," ","a","n","d"," ","A","c","a","d","e","m","i","c"," ","H","e","l","p">>)
    @@ (<<"s","t","u","d","y">> :> <<"E","d","u","c","a","t","i","o","n"," ","a","n","d"," ","A","c","a","d","e","m","i","c"," ","H","e","l","p">>)

key_terms == <<
    <<"f","i","t","n","e","s","s">>, <<"m","e","n","t","a","l">>, <<"h","e","a","l","t","h">>, <<"c","o","u","n","s","e","l","i","n","g">>, <<"l","i","b","r","a","r","y">>, <<"t","u","t","o","r","i","n","g">>,
    <<"a","c","a","d","e","m","i","c">>, <<"s","t","u","d","y">>, <<"g","y","m">>, <<"e","x","e","r","c","i","s","e">>, <<"s","p","o","r","t","s">> >>

\* the words of the query that are keys of category_mappings, in query order
MappedWords(query_lower) == SelectSeq(Split(query_lower), LAMBDA w : w \in DOMAIN category_mappings)

\* the key terms that occur in the query
TermsInQuery(query_lower) == SelectSeq(key_terms, LAMBDA t : Contains(query_lower, t))

\* {"field": {"$regex": pattern, "$options": "i"}} on a string field: a
\* case-insensitive search; a null field never matches.  (The patterns of the
\* model hold no regex metacharacter, so the search is a substring test.)
RegexMatch(value, pattern) == value # None /\ Contains(Lower(value), Lower(pattern))

\* the same on the tags array: some element matches
RegexMatchAny(values, pattern) == \E i \in 1..Len(values) : RegexMatch(values[i], pattern)

\* the $or of search_patterns, on one document
MatchesQuery(doc, query_lower) ==
    LET mapped == MappedWords(query_lower)
        terms == TermsInQuery(query_lower)
    IN  IF mapped = <<>> /\ terms = <<>>
        THEN \/ RegexMatch(doc.title, query_lower)
             \/ RegexMatch(doc.description, query_lower)
             \/ RegexMatch(doc.category, query_lower)
        ELSE \/ \E i \in 1..Len(mapped) : doc.category = category_mappings[mapped[i]]
             \/ \E i \in 1..Len(terms) :
                  \/ RegexMatch(doc.title, terms[i])
                  \/ RegexMatch(doc.description, terms[i])
                  \/ RegexMatchAny(doc.tags, terms[i])

\* cursor.limit(n): n = 0 means no limit
CursorLimit(docs, n) == IF n = 0 THEN docs ELSE SubSeq(docs, 1, Min(n, Len(docs)))

\* collection.find(search_query).limit(limit * 2)
FindDocs(query_lower, limit) ==
    CursorLimit(SelectSeq(resources, LAMBDA d : MatchesQuery(d, query_lower)), limit * 2)

\* doc.get(field, "").lower() raises AttributeError when the stored value is None
ScoringRaises(doc) == doc.title = None \/ doc.description = None \/ doc.category = None

\* mutant: every mapped word whose category is the document's adds 20
CategoryScore_every_word(doc, query_lower) ==
    LET mapped == MappedWords(query_lower) IN
    20 * Cardinality({ i \in 1..Len(mapped) :
                         Lower(doc.category) = Lower(category_mappings[mapped[i]]) })

\* for word in query_lower.split(): the first mapped word whose category is the
\* document's adds 20, once
CategoryScore(doc, query_lower) ==
    LET mapped == MappedWords(query_lower) IN
    IF \E i \in 1..Len(mapped) : Lower(doc.category) = Lower(category_mappings[mapped[i]])
    THEN 20 ELSE 0

RECURSIVE ContentScore(_, _)
ContentScore(doc, terms) ==
    IF terms = <<>> THEN 0
    ELSE LET term == Head(terms) IN
         (IF Contains(Lower(doc.title), term) THEN 10 ELSE 0)
       + (IF Contains(Lower(doc.description), term) THEN 5 ELSE 0)
       + (IF Contains(Lower(Join(doc.tags)), term) THEN 3 ELSE 0)
       + ContentScore(doc, Tail(terms))

\* the raw relevance score of one document (defined when ~ScoringRaises(doc))
RelevanceScore(doc, query_lower) ==
    CategoryScore(doc, query_lower) + ContentScore(doc, TermsInQuery(query_lower))

\* scored_docs: the fetched documents with score > 0, each with its score
RECURSIVE ScoredDocs(_, _)
ScoredDocs(docs, query_lower) ==
    IF docs = <<>> THEN <<>>
    ELSE LET score == RelevanceScore(Head(docs), query_lower)
             rest == ScoredDocs(Tail(docs), query_lower)
         IN  IF score > 0 THEN <<[doc |-> Head(docs), score |-> score]>> \o rest ELSE rest

\* insert x into a list sorted by descending score, behind its equals (stable)
RECURSIVE InsertByScore(_, _)
InsertByScore(sorted, x) ==
    IF sorted = <<>> THEN <<x>>
    ELSE IF Head(sorted).score >= x.score
         THEN <<Head(sorted)>> \o InsertByScore(Tail(sorted), x)
         ELSE <<x>> \o sorted

\* scored_docs.sort(key=lambda x: x["_relevance_score"], reverse=True)
RECURSIVE SortByScore(_)
SortByScore(scored) ==
    IF scored = <<>> THEN <<>>
    ELSE InsertByScore(SortByScore(SubSeq(scored, 1, Len(scored) - 1)), scored[Len(scored)])

\* scored_docs[:limit]
TakeBest(sorted, limit) == SubSeq(sorted, 1, Min(limit, Len(sorted)))

\* mutant: the score is divided by 20 and not clamped to 1.0
normalized_score_unclamped(relevance_score) == [num |-> relevance_score, den |-> 20]

\* min(relevance_score / 20.0, 1.0)
normalized_score(relevance_score) == [num |-> Min(relevance_score, 20), den |-> 20]

\* SearchResult(...) of one scored document; raw is its _relevance_score
SearchResultOf(s) ==
    [id |-> s.doc._id, title |-> s.doc.title, description |-> s.doc.description,
     url |-> s.doc.url, category |-> s.doc.category, tags |-> s.doc.tags,
     similarity_score |-> normalized_score(s.score), owner_id |-> s.doc.owner_id,
     raw |-> s.score]

\* mutant: the failure of the store goes unnoticed and the documents are read
search_of_unchecked_store(query, limit, score_threshold, reachable) ==
    LET query_lower == Strip(Lower(query))
        docs == FindDocs(query_lower, limit)
    IN  IF \E i \in 1..Len(docs) : ScoringRaises(docs[i]) THEN <<>>
        ELSE LET best == TakeBest(SortByScore(ScoredDocs(docs, query_lower)), limit)
             IN  [i \in 1..Len(best) |-> SearchResultOf(best[i])]

\* search_similar_resources(query, limit, score_threshold): every exception
\* (store unreachable, AttributeError while scoring) is caught and [] returned
search_similar_resources(query, limit, score_threshold, reachable) ==
    LET query_lower == Strip(Lower(query))
        docs == FindDocs(query_lower, limit)
    IN  IF ~mongodb_url \/ ~reachable THEN <<>>
        ELSE IF \E i \in 1..Len(docs) : ScoringRaises(docs[i]) THEN <<>>
        ELSE LET best == TakeBest(SortByScore(ScoredDocs(docs, query_lower)), limit)
             IN  [i \in 1..Len(best) |-> SearchResultOf(best[i])]

SearchQueries == {
    <<>>, <<"g","y","m">>, <<" ","G","y","m">>, <<"c","o","u","r","t","s">>, <<"w","o","r","k","o","u","t">>, <<"g","y","m"," ","w","o","r","k","o","u","t">>,
    <<"W","h","a","t"," ","f","i","t","n","e","s","s"," ","p","r","o","g","r","a","m","s"," ","a","r","e"," ","a","v","a","i","l","a","b","l","e","?">> }

Limits == 0..MaxLimit

\* score_threshold, in twentieths: 0.3 (ask) and 0.7 (the default)
Thresholds == {6, 14}

\* POST /search: search_resources calls search_similar_resources
Search ==
    /\ last = NoCall
    /\ \E query \in SearchQueries, limit \in Limits, score_threshold \in Thresholds,
          reachable \in BOOLEAN :
         last' = [op |-> "search", query |-> query, limit |-> limit,
                  score_threshold |-> score_threshold, reachable |-> reachable,
                  results |-> search_similar_resources(query, limit, score_threshold, reachable)]
    /\ UNCHANGED <<requests, resources, next_id, embedding_model, GEMINI_AVAILABLE, mongodb_url, embed_log, relational>>

\* the outcome of the call is handed to the caller
Respond ==
    /\ last # NoCall
    /\ last' = NoCall
    /\ UNCHANGED <<requests, resources, next_id, embedding_model, GEMINI_AVAILABLE, mongodb_url, embed_log, relational>>

\* the service after start-up, with an empty collection; the search path does
\* not read GEMINI_AVAILABLE
Init ==
    /\ resources = <<>>
    /\ next_id = 1
    /\ embedding_model \in BOOLEAN
    /\ GEMINI_AVAILABLE = FALSE
    /\ mongodb_url \in BOOLEAN
    /\ embed_log = <<>>
    /\ questions = <<>>
    /\ search_logs = <<>>
    /\ question_seq = 1
    /\ asked = <<>>
    /\ last = NoCall
    /\ requests = <<>>

Next == StoreResource \/ Search \/ Respond

Spec == Init /\ [][Next]_vars

----------------------------------------------------------------------------
(* Answer generation *)

\* what model.generate_content(prompt) can do: raise, or return a response
\* whose text is empty or not
AIOutcomes == {"raise", "empty", "text"}

greetings == {
    <<"h","i">>, <<"h","e","l","l","o">>, <<"h","e","y">>, <<"g","o","o","d"," ","m","o","r","n","i","n","g">>, <<"g","o","o","d"," ","a","f","t","e","r","n","o","o","n">>, <<"g","o","o","d"," ","e","v","e","n","i","n","g">>,
    <<"h","o","w"," ","a","r","e"," ","y","o","u">>, <<"w","h","a","t","'","s"," ","u","p">>, <<"t","h","a","n","k","s">>, <<"t","h","a","n","k"," ","y","o","u">> }

educational_keywords == {
    <<"w","h","a","t"," ","i","s">>, <<"e","x","p","l","a","i","n">>, <<"t","e","l","l"," ","m","e"," ","a","b","o","u","t">>, <<"h","o","w"," ","d","o","e","s">>, <<"w","h","y">>, <<"w","h","e","n">>,
    <<"s","t","u","d","y"," ","t","i","p","s">>, <<"a","d","v","i","c","e">>, <<"s","u","g","g","e","s","t">>, <<"r","e","c","o","m","m","e","n","d">>, <<"b","e","s","t"," ","w","a","y">>, <<"t","i","p","s"," ","f","o","r">>,
    <<"h","o","w"," ","c","a","n"," ","i"," ","i","m","p","r","o","v","e">> }

campus_resource_indicators == {
    <<"f","i","t","n","e","s","s">>, <<"g","y","m">>, <<"e","x","e","r","c","i","s","e">>, <<"s","p","o","r","t","s">>, <<"m","e","n","t","a","l"," ","h","e","a","l","t","h">>, <<"c","o","u","n","s","e","l","i","n","g">>,
    <<"t","h","e","r","a","p","y">>, <<"l","i","b","r","a","r","y">>, <<"c","a","m","p","u","s">>, <<"u","n","i","v","e","r","s","i","t","y">>, <<"t","e","x","a","s"," ","t","e","c","h">>, <<"t","t","u">>,
    <<"c","a","m","p","u","s"," ","r","e","s","o","u","r","c","e","s">>, <<"u","n","i","v","e","r","s","i","t","y"," ","s","e","r","v","i","c","e","s">>, <<"s","t","u","d","e","n","t"," ","s","e","r","v","i","c","e","s">>,
    <<"w","h","e","r","e"," ","c","a","n"," ","i"," ","f","i","n","d">>, <<"h","o","w"," ","t","o"," ","a","c","c","e","s","s">>, <<"a","v","a","i","l","a","b","l","e"," ","o","n"," ","c","a","m","p","u","s">>, <<"c","a","m","p","u","s"," ","c","e","n","t","e","r">>,
    <<"s","t","u","d","e","n","t"," ","c","e","n","t","e","r">> }

\* an answer: who produced it, which text it is, and the resources it lists
Answer(by, text, listed) == [by |-> by, text |-> text, listed |-> listed]

ResourceIds(rs) == [i \in 1..Len(rs) |-> rs[i].id]

\* no answer: None where an answer is expected, NULL in questions.answer_text
NoAnswer == [by |-> "None", text |-> "None", listed |-> <<>>]

\* generate_educational_response: the first topic whose words occur in question.lower()
generate_educational_response(question) ==
    LET question_lower == Lower(question) IN
    IF ContainsAny(question_lower, { <<"s","t","u","d","y">>, <<"s","t","u","d","y","i","n","g">>, <<"s","t","u","d","i","e","s">>, <<"l","e","a","r","n">>, <<"l","e","a","r","n","i","n","g">> })
    THEN "educational: study"
    ELSE IF ContainsAny(question_lower, { <<"t","i","m","e"," ","m","a","n","a","g","e","m","e","n","t">>, <<"s","c","h","e","d","u","l","e">>, <<"o","r","g","a","n","i","z","e">>, <<"p","r","o","d","u","c","t","i","v","i","t","y">> })
    THEN "educational: time management"
    ELSE IF ContainsAny(question_lower, { <<"e","x","a","m">>, <<"t","e","s","t">>, <<"p","r","e","p","a","r","e">>, <<"p","r","e","p","a","r","a","t","i","o","n">> })
    THEN "educational: exam"
    ELSE IF ContainsAny(question_lower, { <<"a","c","a","d","e","m","i","c">>, <<"c","o","l","l","e","g","e">>, <<"u","n","i","v","e","r","s","i","t","y">>, <<"s","c","h","o","o","l">>, <<"g","r","a","d","e">>, <<"g","p","a">> })
    THEN "educational: academic"
    ELSE IF ContainsAny(question_lower, { <<"s","c","i","e","n","c","e">>, <<"b","i","o","l","o","g","y">>, <<"c","h","e","m","i","s","t","r","y">>, <<"p","h","y","s","i","c","s">>, <<"m","a","t","h">>, <<"m","a","t","h","e","m","a","t","i","c","s">> })
    THEN "educational: science"
    ELSE IF ContainsAny(question_lower, { <<"w","r","i","t","e">>, <<"w","r","i","t","i","n","g">>, <<"e","s","s","a","y">>, <<"p","a","p","e","r">>, <<"r","e","p","o","r","t">>, <<"c","o","m","m","u","n","i","c","a","t","i","o","n">> })
    THEN "educational: writing"
    ELSE "educational: general"

\* mutant: the resource listing comes before the greeting
simple_answer_resources_first(question, rs) ==
    LET question_lower == Strip(Lower(question))
        is_greeting == ContainsAny(question_lower, greetings)
    IN  IF rs # <<>> THEN Answer("generate_simple_answer", "resources", ResourceIds(rs))
        ELSE IF is_greeting THEN Answer("generate_simple_answer", "greeting", <<>>)
        ELSE Answer("generate_simple_answer", generate_educational_response(question), <<>>)

\* generate_simple_answer: greeting first, then the resource listing, then the
\* educational template
generate_simple_answer(question, rs) ==
    LET question_lower == Strip(Lower(question))
        is_greeting == ContainsAny(question_lower, greetings)
    IN  IF is_greeting THEN Answer("generate_simple_answer", "greeting", <<>>)
        ELSE IF rs # <<>> THEN Answer("generate_simple_answer", "resources", ResourceIds(rs))
        ELSE Answer("generate_simple_answer", generate_educational_response(question), <<>>)

\* the text of a Gemini response
AIText(outcome) == IF outcome = "empty" THEN "" ELSE "ai text"

\* generate_ai_answer(question, resources): [answer, calls], calls being the AI
\* calls it made; ai is what the gemini-2.5-pro call does
generate_ai_answer(question, rs, ai) ==
    LET question_lower == Strip(Lower(question))
        is_general_greeting == ContainsAny(question_lower, greetings)
        is_educational_question == ContainsAny(question_lower, educational_keywords)
        prompt == IF is_general_greeting \/ is_educational_question THEN "general" ELSE "resources"
        call == [model |-> "gemini-2.5-pro", prompt |-> prompt, outcome |-> ai]
    IN  IF ~GEMINI_AVAILABLE
        THEN [answer |-> generate_simple_answer(question, rs), calls |-> <<>>]
        ELSE IF rs = <<>> /\ ~is_general_greeting /\ ~is_educational_question
        THEN [answer |-> Answer("generate_ai_answer", "no relevant resources", <<>>), calls |-> <<>>]
        ELSE IF ai = "text"
        THEN [answer |-> Answer("gemini-2.5-pro", AIText(ai), IF prompt = "resources" THEN ResourceIds(rs) ELSE <<>>),
              calls |-> <<call>>]
        ELSE [answer |-> generate_simple_answer(question, rs), calls |-> <<call>>]

\* generate_ai_answer_with_context(question, resources, context, is_greeting):
\* the prompt is the greeting one, the one listing the resources, or the
\* educational one (resources_text is built when the question holds none of
\* general_greetings, as every question that is no greeting does);
\* ai1 is what the gemini-2.0-flash-exp call does, ai2 what the call of
\* generate_ai_answer does when the first one raised
generate_ai_answer_with_context(question, rs, context, is_greeting, ai1, ai2) ==
    LET prompt == IF is_greeting THEN "greeting"
                  ELSE IF rs # <<>> THEN "resources" ELSE "educational"
        call == [model |-> "gemini-2.0-flash-exp", prompt |-> prompt, outcome |-> ai1]
        fallback == generate_ai_answer(question, rs, ai2)
    IN  IF ai1 = "raise"
        THEN [answer |-> fallback.answer, calls |-> <<call>> \o fallback.calls]
        ELSE [answer |-> Answer("gemini-2.0-flash-exp", AIText(ai1), IF prompt = "resources" THEN ResourceIds(rs) ELSE <<>>),
              calls |-> <<call>>]

----------------------------------------------------------------------------
(* ask_question_with_ai *)

\* user_id of a request without a user (None, NULL in the tables); ids start at 1
NoUser == 0

AskLimit == 3
AskThreshold == 6

is_greeting_question(question_lower) == ContainsAny(question_lower, greetings)

\* mutant: the scorer also runs when the question holds a key of category_mappings
should_search_mapped(question_lower) ==
    ContainsAny(question_lower, campus_resource_indicators \cup DOMAIN category_mappings)

\* any(indicator in question_lower for indicator in campus_resource_indicators)
should_search(question_lower) == ContainsAny(question_lower, campus_resource_indicators)

AskQuestions == {
    <<"h","e","l","l","o">>, <<"h","i"," ","g","y","m">>, <<"g","y","m">>, <<"w","o","r","k","o","u","t">>, <<"c","a","m","p","u","s"," ","p","a","r","k","i","n","g">>, <<"s","t","u","d","y"," ","t","i","p","s">>,
    <<"W","h","a","t"," ","i","s"," ","p","h","o","t","o","s","y","n","t","h","e","s","i","s","?">>, <<"W","h","a","t"," ","f","i","t","n","e","s","s"," ","p","r","o","g","r","a","m","s"," ","a","r","e"," ","a","v","a","i","l","a","b","l","e","?">> }

\* mutant: a question the user already has a stored turn for is not searched again
similar_resources_once(question, user_id, reachable) ==
    IF /\ should_search(Strip(Lower(question)))
       /\ ~\E i \in 1..Len(questions) :
              questions[i].user_id = user_id /\ questions[i].question_text = question
    THEN search_similar_resources(question, AskLimit, AskThreshold, reachable)
    ELSE <<>>

\* similar_resources: [] unless should_search, then the scorer's result
similar_resources(question, user_id, reachable) ==
    IF should_search(Strip(Lower(question)))
    THEN search_similar_resources(question, AskLimit, AskThreshold, reachable)
    ELSE <<>>

\* ask_question_with_ai(question, user_id): the scorer runs when the question
\* holds a campus resource indicator; the answer comes from Gemini when it is
\* configured, from generate_simple_answer otherwise. context is the
\* conversation context handed to the answer step: the literal "" of line 824
ask_question_with_ai(question, user_id, reachable, ai1, ai2) ==
    LET question_lower == Strip(Lower(question))
        is_greeting == is_greeting_question(question_lower)
        searched == should_search(question_lower)
        found == similar_resources(question, user_id, reachable)
        context == <<>>
        ai == generate_ai_answer_with_context(question, found, context, is_greeting, ai1, ai2)
        answer == IF GEMINI_AVAILABLE THEN ai.answer
                  ELSE generate_simple_answer(question, found)
    IN  [question |-> question, user_id |-> user_id,
         is_greeting |-> is_greeting, should_search |-> searched,
         scorer_calls |-> IF searched
                          THEN <<[query |-> question, limit |-> AskLimit,
                                  score_threshold |-> AskThreshold,
                                  reachable |-> reachable]>>
                          ELSE <<>>,
         ai_calls |-> IF GEMINI_AVAILABLE THEN ai.calls ELSE <<>>,
         context |-> context,
         answer |-> answer,
         relevant_resources |-> found]

\* a caller evaluates ask_question_with_ai(question) without a user
Ask ==
    /\ last = NoCall
    /\ \E question \in AskQuestions, reachable \in BOOLEAN, ai1 \in AIOutcomes, ai2 \in AIOutcomes :
         \E r \in {ask_question_with_ai(question, NoUser, reachable, ai1, ai2)} :
             last' = [op |-> "ask", question |-> r.question,
                      scorer_calls |-> r.scorer_calls,
                      ai_calls |-> r.ai_calls,
                      answer |-> r.answer,
                      relevant_resources |-> r.relevant_resources]
    /\ UNCHANGED <<requests, resources, next_id, embedding_model, GEMINI_AVAILABLE, mongodb_url, embed_log, relational>>

\* the service after start-up, with an empty collection; the ask path reads the
\* stored documents but never their embeddings, so the digest fallback stands
\* for both embedding paths
InitAsk ==
    /\ resources = <<>>
    /\ next_id = 1
    /\ embedding_model = FALSE
    /\ GEMINI_AVAILABLE \in BOOLEAN
    /\ mongodb_url \in BOOLEAN
    /\ embed_log = <<>>
    /\ questions = <<>>
    /\ search_logs = <<>>
    /\ question_seq = 1
    /\ asked = <<>>
    /\ last = NoCall
    /\ requests = <<>>

NextAsk == StoreResource \/ Ask \/ Respond

SpecAsk == InitAsk /\ [][NextAsk]_vars

----------------------------------------------------------------------------
(* generate_embedding, on its own *)

EmbedTexts == {
    <<>>, <<"g","y","m">>, <<"h","e","l","l","o">>, <<"c","o","u","r","t","s">>,
    <<"W","h","a","t"," ","i","s"," ","p","h","o","t","o","s","y","n","t","h","e","s","i","s","?">>, <<"W","h","a","t"," ","f","i","t","n","e","s","s"," ","p","r","o","g","r","a","m","s"," ","a","r","e"," ","a","v","a","i","l","a","b","l","e","?">> }

\* a caller (search.py:93, store, update) evaluates generate_embedding(text)
GenerateEmbedding ==
    /\ last = NoCall
    /\ Len(embed_log) < MaxCalls
    /\ \E text \in EmbedTexts, encode \in EncodeOutcomes :
         LET r == generate_embedding(text, encode) IN
         /\ embed_log' = Append(embed_log, [text |-> text, raised |-> r.raised, value |-> r.value])
         /\ last' = [op |-> "generate_embedding", text |-> text, raised |-> r.raised, value |-> r.value]
    /\ UNCHANGED <<requests, resources, next_id, embedding_model, GEMINI_AVAILABLE, mongodb_url, relational>>

\* the module after import, with or without the sentence-transformer model
InitEmbed ==
    /\ resources = <<>>
    /\ next_id = 1
    /\ embedding_model \in BOOLEAN
    /\ GEMINI_AVAILABLE = FALSE
    /\ mongodb_url = TRUE
    /\ embed_log = <<>>
    /\ questions = <<>>
    /\ search_logs = <<>>
    /\ question_seq = 1
    /\ asked = <<>>
    /\ last = NoCall
    /\ requests = <<>>

NextEmbed == GenerateEmbedding \/ Respond

SpecEmbed == InitEmbed /\ [][NextEmbed]_vars

----------------------------------------------------------------------------
(* generate_simple_answer, on its own: the text it builds, by its length *)

MaxCandidates == 2

GreetingLength == 116
ListingHeaderLength == 35
DescriptionCut == 100

\* a description longer than the cut of description[:100]
LongDescription == [i \in 1..(DescriptionCut + 20) |-> "x"]

\* SearchResult objects a caller may pass: description is Optional[str]
SimpleCandidates == {
    [id |-> 1, title |-> <<"G","y","m">>, description |-> None, url |-> <<"u","2">>,
     category |-> <<"F","i","t","n","e","s","s">>, tags |-> << <<"g","y","m">> >>,
     similarity_score |-> [num |-> 10, den |-> 20], owner_id |-> None, raw |-> 10],
    [id |-> 2, title |-> <<"F","i","t","n","e","s","s"," ","C","e","n","t","e","r">>, description |-> <<"g","y","m"," ","a","n","d"," ","f","i","t","n","e","s","s">>, url |-> <<"u","3">>,
     category |-> <<"F","i","t","n","e","s","s">>, tags |-> << <<"f","i","t","n","e","s","s">> >>,
     similarity_score |-> [num |-> 20, den |-> 20], owner_id |-> None, raw |-> 43],
    [id |-> 3, title |-> <<>>, description |-> <<>>, url |-> <<>>,
     category |-> None, tags |-> <<>>,
     similarity_score |-> [num |-> 0, den |-> 20], owner_id |-> None, raw |-> 0],
    [id |-> 4, title |-> <<"G","y","m"," ","H","o","u","r","s">>, description |-> LongDescription, url |-> <<"u","4">>,
     category |-> <<"I","n","f","o">>, tags |-> <<>>,
     similarity_score |-> [num |-> 10, den |-> 20], owner_id |-> None, raw |-> 10] }

CandidateLists == UNION { [1..n -> SimpleCandidates] : n \in 0..MaxCandidates }

\* len(str(i))
DecimalDigits(i) == IF i < 10 THEN 1 ELSE IF i < 100 THEN 2 ELSE 3

\* len of generate_educational_response(question): the six topic templates are
\* fixed texts, the general one is an f-string that quotes the question
educational_response_length(question) ==
    LET topic == generate_educational_response(question) IN
    IF topic = "educational: study" THEN 755
    ELSE IF topic = "educational: time management" THEN 745
    ELSE IF topic = "educational: exam" THEN 933
    ELSE IF topic = "educational: academic" THEN 949
    ELSE IF topic = "educational: science" THEN 1065
    ELSE IF topic = "educational: writing" THEN 1138
    ELSE 796 + Len(question)

\* f"   {resource.description[:100]}...\n" without the test of line 692:
\* None[:100] is a TypeError
description_line_unguarded(resource) ==
    IF resource.description = None
    THEN [raised |-> TRUE, length |-> 0]
    ELSE [raised |-> FALSE, length |-> 3 + Min(Len(resource.description), DescriptionCut) + 4]

\* if resource.description: response += f"   {resource.description[:100]}...\n"
description_line(resource) ==
    IF resource.description = None \/ resource.description = <<>>
    THEN [raised |-> FALSE, length |-> 0]
    ELSE [raised |-> FALSE, length |-> 3 + Min(Len(resource.description), DescriptionCut) + 4]

\* the lines of resource i: f"{i}. **{title}**\n", the description line,
\* f"   🔗 {url}\n\n"
listing_entry(i, resource) ==
    LET d == description_line(resource) IN
    [raised |-> d.raised,
     length |-> DecimalDigits(i) + 7 + Len(resource.title) + d.length + 7 + Len(resource.url)]

RECURSIVE listing_from(_, _)
listing_from(rs, i) ==
    IF i > Len(rs) THEN [raised |-> FALSE, length |-> 0]
    ELSE LET e == listing_entry(i, rs[i])
             rest == listing_from(rs, i + 1)
         IN  IF e.raised THEN e
             ELSE [raised |-> rest.raised, length |-> e.length + rest.length]

\* generate_simple_answer(question, resources) as the str it returns: whether
\* building it raised, its len, and which answer it is
simple_answer_text(question, rs) ==
    LET answer == generate_simple_answer(question, rs)
        listing == listing_from(rs, 1)
    IN  IF answer.text = "greeting"
        THEN [raised |-> FALSE, length |-> GreetingLength, answer |-> answer]
        ELSE IF answer.text = "resources"
        THEN [raised |-> listing.raised,
              length |-> IF listing.raised THEN 0 ELSE ListingHeaderLength + listing.length,
              answer |-> answer]
        ELSE [raised |-> FALSE, length |-> educational_response_length(question), answer |-> answer]

\* a caller evaluates generate_simple_answer(question, resources)
SimpleAnswer ==
    /\ last = NoCall
    /\ \E question \in AskQuestions, rs \in CandidateLists :
         LET r == simple_answer_text(question, rs) IN
         last' = [op |-> "generate_simple_answer", question |-> question, resources |-> rs,
                  raised |-> r.raised, length |-> r.length, answer |-> r.answer]
    /\ UNCHANGED <<requests, resources, next_id, embedding_model, GEMINI_AVAILABLE, mongodb_url, embed_log, relational>>

\* the module after import; generate_simple_answer reads no module state
InitSimple ==
    /\ resources = <<>>
    /\ next_id = 1
    /\ embedding_model = FALSE
    /\ GEMINI_AVAILABLE = FALSE
    /\ mongodb_url = TRUE
    /\ embed_log = <<>>
    /\ questions = <<>>
    /\ search_logs = <<>>
    /\ question_seq = 1
    /\ asked = <<>>
    /\ last = NoCall
    /\ requests = <<>>

NextSimple == SimpleAnswer \/ Respond

SpecSimple == InitSimple /\ [][NextSimple]_vars

----------------------------------------------------------------------------
(* The ask endpoint, the tables questions and search_logs, and the
   conversation history read and trimmed from questions.  The relational
   store answers every statement unless an operation says otherwise, the ids
   of the requests are ids of registered users, and created_at (now() of the
   insert) grows with every insert. *)

MaxRequests == 2
MaxTurns == 3

UserIds == {1, 2}

\* who asks: nobody in particular, or the registered user 1
AskingUsers == {NoUser, 1}

EndpointQuestions == { <<"h","e","l","l","o">>, <<"g","y","m">> }

AnswerCut == 200

DigitChar(d) == <<"0", "1", "2", "3", "4", "5", "6", "7", "8", "9">>[d + 1]

\* str(x) of the float x = num/20 in [0, 1]: the shortest decimal that reads back
FloatStr(x) ==
    LET hundredths == (x.num * 100) \div x.den IN
    IF hundredths >= 100 THEN <<"1", ".", "0">>
    ELSE IF hundredths % 10 = 0 THEN <<"0", ".", DigitChar(hundredths \div 10)>>
    ELSE <<"0", ".", DigitChar(hundredths \div 10), DigitChar(hundredths % 10)>>

\* SearchLog(query=..., results_count=..., user_id=..., search_type=...,
\* response_time_ms=...): the elapsed time is a clock reading nothing reads back
SearchLog(id, query, results_count, user_id) ==
    [id |-> id, query |-> query, results_count |-> results_count, user_id |-> user_id,
     search_type |-> "semantic", response_time_ms |-> "elapsed"]

\* mutant: a row of the same user and query is overwritten rather than a row added
add_search_log_upsert(rows, query, results_count, user_id) ==
    IF \E i \in 1..Len(rows) : rows[i].query = query /\ rows[i].user_id = user_id
    THEN [i \in 1..Len(rows) |->
            IF rows[i].query = query /\ rows[i].user_id = user_id
            THEN SearchLog(rows[i].id, query, results_count, user_id)
            ELSE rows[i]]
    ELSE Append(rows, SearchLog(Len(rows) + 1, query, results_count, user_id))

\* db.add(search_log) and the commit: one more row, with the next id
add_search_log(rows, query, results_count, user_id) ==
    Append(rows, SearchLog(Len(rows) + 1, query, results_count, user_id))

\* Question(question_text=..., answer_text=..., user_id=..., similarity_score=...)
\* as inserted: id from the sequence, created_at from the clock
Question(id, question_text, answer_text, user_id, relevant_resources) ==
    [id |-> id, question_text |-> question_text, answer_text |-> answer_text,
     user_id |-> user_id,
     similarity_score |-> IF relevant_resources # <<>>
                          THEN FloatStr(relevant_resources[1].similarity_score)
                          ELSE None,
     created_at |-> id]

\* mutant: the failure is answered as a normal result with a generic answer
error_response_as_answer(question, user_id) ==
    [status |-> 200, detail |-> None,
     answer |-> Answer("ask_question", "generic failure", <<>>),
     relevant_resources |-> <<>>]

\* raise HTTPException(status_code=500, detail=f"Failed to process question: ...")
error_response(question, user_id) ==
    [status |-> 500, detail |-> "Failed to process question",
     answer |-> NoAnswer, relevant_resources |-> None]

\* the user's rows of questions
TurnsOf(user_id) == SelectSeq(questions, LAMBDA q : q.user_id = user_id)

\* POST /ask: ask_question.  raises says that ask_question_with_ai raised an
\* exception; the handler then logs a search without results and answers with
\* HTTP 500.  Otherwise it logs the search and the question and returns the
\* response
AskEndpoint ==
    /\ last = NoCall
    /\ Len(search_logs) < MaxRequests
    /\ \E question \in EndpointQuestions, user_id \in AskingUsers,
          reachable \in BOOLEAN, ai1 \in AIOutcomes, ai2 \in AIOutcomes, raises \in BOOLEAN :
         \E response \in {ask_question_with_ai(question, user_id, reachable, ai1, ai2)} :
         LET error == error_response(question, user_id)
             stored_turns == Len(TurnsOf(user_id))
         IN
         IF raises
         THEN /\ search_logs' = add_search_log(search_logs, question, 0, user_id)
              /\ UNCHANGED <<requests, questions, question_seq>>
              /\ asked' = Append(asked, [question |-> question, user_id |-> user_id,
                                         catalog |-> resources, scorer_calls |-> <<>>,
                                         failed |-> TRUE, is_greeting |-> FALSE,
                                         should_search |-> FALSE, relevant_resources |-> <<>>])
              /\ last' = [op |-> "ask_endpoint", question |-> question, user_id |-> user_id,
                          failed |-> TRUE, status |-> error.status, detail |-> error.detail,
                          stored_turns |-> stored_turns, ai_calls |-> <<>>, context |-> <<>>,
                          answer |-> error.answer,
                          relevant_resources |-> error.relevant_resources]
         ELSE /\ search_logs' = add_search_log(search_logs, question,
                                               Len(response.relevant_resources), user_id)
              /\ questions' = Append(questions,
                                     Question(question_seq, question, response.answer, user_id,
                                              response.relevant_resources))
              /\ question_seq' = question_seq + 1
              /\ asked' = Append(asked, [question |-> question, user_id |-> user_id,
                                         catalog |-> resources,
                                         scorer_calls |-> response.scorer_calls,
                                         failed |-> FALSE, is_greeting |-> response.is_greeting,
                                         should_search |-> response.should_search,
                                         relevant_resources |-> response.relevant_resources])
              /\ last' = [op |-> "ask_endpoint", question |-> question, user_id |-> user_id,
                          failed |-> FALSE, status |-> 200, detail |-> None,
                          stored_turns |-> stored_turns, ai_calls |-> response.ai_calls,
                          context |-> response.context,
                          answer |-> response.answer,
                          relevant_resources |-> response.relevant_resources]
    /\ UNCHANGED <<requests, resources, next_id, embedding_model, GEMINI_AVAILABLE, mongodb_url, embed_log>>

\* ORDER BY created_at DESC
RECURSIVE InsertByCreatedDesc(_, _)
InsertByCreatedDesc(sorted, q) ==
    IF sorted = <<>> THEN <<q>>
    ELSE IF q.created_at > Head(sorted).created_at THEN <<q>> \o sorted
    ELSE <<Head(sorted)>> \o InsertByCreatedDesc(Tail(sorted), q)

RECURSIVE OrderByCreatedDesc(_)
OrderByCreatedDesc(rows) ==
    IF rows = <<>> THEN <<>>
    ELSE InsertByCreatedDesc(OrderByCreatedDesc(Tail(rows)), Head(rows))

\* LIMIT n
LimitRows(rows, n) == SubSeq(rows, 1, Min(n, Len(rows)))

\* reversed(rows)
Reversed(rows) == [i \in 1..Len(rows) |-> rows[Len(rows) + 1 - i]]

\* the lines of one turn: f"User: {q.question_text}\n" and
\* f"Assistant: {q.answer_text[:200]}...\n\n"
RenderedTurn(q) ==
    [user |-> q.question_text, assistant |-> q.answer_text, cut |-> AnswerCut]

\* the newest `limit` rows of the user, newest first
recent_questions(user_id, limit) == LimitRows(OrderByCreatedDesc(TurnsOf(user_id)), limit)

\* mutant: the rows are rendered as the query returns them, newest first
conversation_context_newest_first(user_id, limit, db_ok) ==
    LET recent == recent_questions(user_id, limit) IN
    IF ~db_ok THEN <<>>
    ELSE IF \E i \in 1..Len(recent) : recent[i].answer_text = NoAnswer THEN <<>>
    ELSE [i \in 1..Len(recent) |-> RenderedTurn(recent[i])]

\* get_user_conversation_context(user_id, limit): "" (here <<>>) when the user
\* has no row or anything raises (the store failing, None[:200]); else the
\* header followed by the turns, oldest first
get_user_conversation_context(user_id, limit, db_ok) ==
    LET recent == recent_questions(user_id, limit) IN
    IF ~db_ok THEN <<>>
    ELSE IF \E i \in 1..Len(recent) : recent[i].answer_text = NoAnswer THEN <<>>
    ELSE [i \in 1..Len(recent) |-> RenderedTurn(Reversed(recent)[i])]

\* a caller evaluates get_user_conversation_context(user_id, limit)
GetContext ==
    /\ last = NoCall
    /\ \E user_id \in UserIds, limit \in 0..MaxLimit, db_ok \in BOOLEAN :
         last' = [op |-> "get_user_conversation_context", user_id |-> user_id,
                  limit |-> limit, db_ok |-> db_ok,
                  context |-> get_user_conversation_context(user_id, limit, db_ok)]
    /\ UNCHANGED <<requests, resources, next_id, embedding_model, GEMINI_AVAILABLE, mongodb_url, embed_log, relational>>

RowIds(rows) == { rows[i].id : i \in 1..Len(rows) }

\* mutant: the subquery without its WHERE user_id = :user_id
kept_question_ids_any_user(user_id, keep_messages) ==
    RowIds(LimitRows(OrderByCreatedDesc(questions), keep_messages))

\* SELECT id FROM questions WHERE user_id = :user_id
\* ORDER BY created_at DESC LIMIT :keep_messages
kept_question_ids(user_id, keep_messages) ==
    RowIds(LimitRows(OrderByCreatedDesc(TurnsOf(user_id)), keep_messages))

\* cleanup_old_conversation_history(user_id, keep_messages): the table after
\* DELETE FROM questions WHERE user_id = :user_id AND id NOT IN (...); a
\* failing store leaves the table as it is (the exception is printed)
cleanup_old_conversation_history(user_id, keep_messages, db_ok) ==
    IF ~db_ok THEN questions
    ELSE SelectSeq(questions,
                   LAMBDA q : ~(q.user_id = user_id
                                /\ q.id \notin kept_question_ids(user_id, keep_messages)))

\* a caller runs cleanup_old_conversation_history(user_id, keep_messages)
Cleanup ==
    /\ last = NoCall
    /\ \E user_id \in UserIds, keep_messages \in 0..MaxLimit, db_ok \in BOOLEAN :
         /\ questions' = cleanup_old_conversation_history(user_id, keep_messages, db_ok)
         /\ last' = [op |-> "cleanup_old_conversation_history", user_id |-> user_id,
                     keep_messages |-> keep_messages, db_ok |-> db_ok, before |-> questions]
    /\ UNCHANGED <<requests, resources, next_id, embedding_model, GEMINI_AVAILABLE, mongodb_url, embed_log,
                   search_logs, question_seq, asked>>

\* the turns the endpoint stores for a user while Gemini is not configured and
\* the catalog is empty
TurnInputs == [question : EndpointQuestions, user_id : UserIds]

StoredTurn(id, turn) ==
    Question(id, turn.question, generate_simple_answer(turn.question, <<>>), turn.user_id, <<>>)

\* the tables questions the endpoint can have built with up to MaxTurns requests
StoredTurns ==
    UNION { { [i \in 1..n |-> StoredTurn(i, turns[i])] : turns \in [1..n -> TurnInputs] } :
            n \in 0..MaxTurns }

\* the rows of search_logs written with the rows of questions
LogsOf(rows) ==
    [i \in 1..Len(rows) |-> SearchLog(i, rows[i].question_text, 0, rows[i].user_id)]

\* the service after up to MaxTurns answered requests, the catalog empty
InitHistory ==
    /\ resources = <<>>
    /\ next_id = 1
    /\ embedding_model = FALSE
    /\ GEMINI_AVAILABLE = FALSE
    /\ mongodb_url = TRUE
    /\ embed_log = <<>>
    /\ questions \in StoredTurns
    /\ search_logs = LogsOf(questions)
    /\ question_seq = Len(questions) + 1
    /\ asked = <<>>
    /\ last = NoCall
    /\ requests = <<>>

NextHistory == GetContext \/ Cleanup \/ Respond

SpecHistory == InitHistory /\ [][NextHistory]_vars

\* catalogs the ask endpoint may find: none, or the one document stored from
\* the 'Fitness Center' input
EndpointCatalogs == {
    <<>>,
    << mongodb_doc(1, [title |-> <<"F","i","t","n","e","s","s"," ","C","e","n","t","e","r">>, description |-> <<"g","y","m"," ","a","n","d"," ","f","i","t","n","e","s","s">>,
                       url |-> <<"u","3">>, category |-> <<"F","i","t","n","e","s","s">>, tags |-> << <<"f","i","t","n","e","s","s">> >>],
                   FallbackEmbedding(combined_text(<<"F","i","t","n","e","s","s"," ","C","e","n","t","e","r">>, <<"g","y","m"," ","a","n","d"," ","f","i","t","n","e","s","s">>))) >> }

\* the service with its tables empty and a catalog stored before
InitEndpoint ==
    /\ resources \in EndpointCatalogs
    /\ next_id = Len(resources) + 1
    /\ embedding_model = FALSE
    /\ GEMINI_AVAILABLE \in BOOLEAN
    /\ mongodb_url = TRUE
    /\ embed_log = <<>>
    /\ questions = <<>>
    /\ search_logs = <<>>
    /\ question_seq = 1
    /\ asked = <<>>
    /\ last = NoCall
    /\ requests = <<>>

NextEndpoint == AskEndpoint \/ Respond

SpecEndpoint == InitEndpoint /\ [][NextEndpoint]_vars

----------------------------------------------------------------------------
(* Ingestion, update and deletion of catalog documents *)

MaxStored == 2

\* ResourceCreate bodies: title and url are str and may be empty
IngestInputs == {
    [title |-> <<"G","y","m">>, description |-> None, url |-> <<"u","2">>,
     category |-> <<"F","i","t","n","e","s","s">>, tags |-> << <<"g","y","m">> >>],
    [title |-> <<"G","y","m"," ","H","o","u","r","s">>, description |-> <<"H","o","u","r","s">>, url |-> <<"u","4">>,
     category |-> <<"I","n","f","o">>, tags |-> <<>>],
    [title |-> <<>>, description |-> <<"C","o","u","r","t","s">>, url |-> <<>>,
     category |-> <<"F","i","t","n","e","s","s">>, tags |-> <<>>] }

\* what one call of store_resource_with_embedding meets: the outcome of
\* encode and whether the store answers
StoreEnvs == [encode : EncodeOutcomes, reachable : BOOLEAN]

\* store_resource_with_embedding(title, description, url, category, tags) on the
\* collection docs: the collection afterwards, the next id, and whether a
\* document was returned (None when anything raised or MONGODB_URL is not set).
\* connection tells what became of the MongoClient: "none" when the function
\* returned before making one, "closed" when client.close() ran, "open" when
\* an exception after MongoClient(...) led to `except`, which does not close
store_resource_with_embedding(docs, nid, r, env) ==
    LET e == generate_embedding(combined_text(r.title, r.description), env.encode)
        stored == ~e.raised /\ mongodb_url /\ env.reachable
    IN  [resources |-> IF stored THEN Append(docs, mongodb_doc(nid, r, e.value)) ELSE docs,
         next_id |-> IF stored THEN nid + 1 ELSE nid,
         stored |-> stored,
         connection |-> IF e.raised \/ ~mongodb_url THEN "none"
                        ELSE IF env.reachable THEN "closed" ELSE "open"]

\* the loop `for ... in resources: store_resource_with_embedding(...)` from item i on:
\* the collection, the next id and the outcome of every item so far
RECURSIVE store_all(_, _, _, _, _)
store_all(acc, items, envs, accept, i) ==
    IF i > Len(items) THEN acc
    ELSE IF ~accept[i]
         THEN store_all([acc EXCEPT !.stored = Append(@, FALSE)], items, envs, accept, i + 1)
         ELSE LET s == store_resource_with_embedding(acc.resources, acc.next_id, items[i], envs[i])
              IN  store_all([resources |-> s.resources, next_id |-> s.next_id,
                             stored |-> Append(acc.stored, s.stored)],
                            items, envs, accept, i + 1)

\* the batches that still fit: at most MaxStored ids are handed out
Batches(S) == UNION { [1..n -> S] : n \in 0..(MaxStored + 1 - next_id) }

\* the number of TRUE entries
CountTrue(flags) == Cardinality({ i \in 1..Len(flags) : flags[i] })

\* POST /resources: create_resource; HTTP 500 when nothing was stored
CreateResource ==
    /\ last = NoCall
    /\ next_id <= MaxStored
    /\ \E r \in IngestInputs, env \in StoreEnvs :
         LET s == store_resource_with_embedding(resources, next_id, r, env) IN
         /\ resources' = s.resources
         /\ next_id' = s.next_id
         /\ last' = [op |-> "create_resource", title |-> r.title, url |-> r.url,
                     status |-> IF s.stored THEN 200 ELSE 500,
                     id |-> IF s.stored THEN next_id ELSE 0,
                     connection |-> s.connection]
    /\ UNCHANGED <<requests, embedding_model, GEMINI_AVAILABLE, mongodb_url, embed_log, relational>>

\* POST /resources/batch: create_resources_batch stores every item, then
\* BatchResourceResponse(created_count=..., total_count=..., resources=...,
\* errors=...) fails validation (the schema has created and failed), which
\* leaves the handler as HTTP 500 with the documents stored
CreateBatch ==
    /\ last = NoCall
    /\ next_id <= MaxStored
    /\ \E items \in Batches(IngestInputs) : \E envs \in [1..Len(items) -> StoreEnvs] :
         LET s == store_all([resources |-> resources, next_id |-> next_id, stored |-> <<>>],
                            items, envs, [i \in 1..Len(items) |-> TRUE], 1)
         IN
         /\ resources' = s.resources
         /\ next_id' = s.next_id
         /\ last' = [op |-> "create_resources_batch", total |-> Len(items),
                     created |-> CountTrue(s.stored),
                     errors |-> Len(items) - CountTrue(s.stored),
                     status |-> 500]
    /\ UNCHANGED <<requests, embedding_model, GEMINI_AVAILABLE, mongodb_url, embed_log, relational>>

\* dict.get(key, default)
DictGet(d, key, default) == IF key \in DOMAIN d THEN d[key] ELSE default

\* dicts handed to batch_process_resources: any key may be missing
ResourceDicts == {
    [title |-> <<"G","y","m"," ","H","o","u","r","s">>, description |-> <<"H","o","u","r","s">>, url |-> <<"u","4">>,
     category |-> <<"I","n","f","o">>, tags |-> <<>>],
    [description |-> <<"C","o","u","r","t","s">>] }

\* the arguments batch_process_resources passes for one dict
resource_of_dict(d) ==
    [title |-> DictGet(d, "title", <<>>), description |-> DictGet(d, "description", <<>>),
     url |-> DictGet(d, "url", <<>>), category |-> DictGet(d, "category", None),
     tags |-> DictGet(d, "tags", <<>>)]

\* batch_process_resources(resources_data): every dict is stored with the
\* defaults of its missing keys; the documents created are returned
BatchProcess ==
    /\ last = NoCall
    /\ next_id <= MaxStored
    /\ \E dicts \in Batches(ResourceDicts) : \E envs \in [1..Len(dicts) -> StoreEnvs] :
         LET items == [i \in 1..Len(dicts) |-> resource_of_dict(dicts[i])]
             s == store_all([resources |-> resources, next_id |-> next_id, stored |-> <<>>],
                            items, envs, [i \in 1..Len(items) |-> TRUE], 1)
         IN
         /\ resources' = s.resources
         /\ next_id' = s.next_id
         /\ last' = [op |-> "batch_process_resources", total |-> Len(items),
                     created |-> CountTrue(s.stored)]
    /\ UNCHANGED <<requests, embedding_model, GEMINI_AVAILABLE, mongodb_url, embed_log, relational>>

\* resources of an uploaded JSON file: title, text and url, any of them
\* missing, blank or null
UploadedDicts == {
    [title |-> <<" ","G","y","m"," ","H","o","u","r","s"," ">>, text |-> <<"H","o","u","r","s">>, url |-> <<"u","4">>],
    [text |-> <<"C","o","u","r","t","s">>, url |-> <<"u","1">>],
    [title |-> <<"G","y","m">>, url |-> <<" ">>],
    [title |-> None, url |-> <<"u","1">>] }

\* the keys of the uploaded file, in the order of the file
UploadedCategories == << <<" ","F","i","t","n","e","s","s"," ">>, <<"I","n","f","o">> >>

\* [word.lower() for word in title.split() if len(word) > 3][:5]
RECURSIVE title_words(_)
title_words(words) ==
    IF words = <<>> THEN <<>>
    ELSE IF Len(Head(words)) > 3 THEN <<Lower(Head(words))>> \o title_words(Tail(words))
    ELSE title_words(Tail(words))

\* the fields process_ttu_resources extracts from one resource of a category
uploaded_resource(category_name, d) ==
    LET title == Strip(DictGet(d, "title", <<>>))
        words == title_words(Split(title))
    IN  [title |-> title,
         description |-> Strip(DictGet(d, "text", <<>>)),
         url |-> Strip(DictGet(d, "url", <<>>)),
         category |-> Strip(category_name),
         tags |-> << Lower(Strip(category_name)) >> \o SubSeq(words, 1, Min(5, Len(words)))]

\* if not title or not url: the resource is counted as failed and skipped
has_required_fields(r) == r.title # <<>> /\ r.url # <<>>

\* the local variable title of process_ttu_resources before its first assignment
Unbound == << "unbound" >>

\* title[:50]
TitleCut == 50

\* results and the locals of process_ttu_resources before the first category
ttu_start(docs, nid) ==
    [resources |-> docs, next_id |-> nid, title |-> Unbound, raised |-> FALSE,
     total_processed |-> 0, total_categories |-> 0, successful |-> 0, failed |-> 0,
     details |-> <<>>, outcomes |-> <<>>]

\* category_results of a category before its first resource
category_start(category_name) ==
    [category |-> Strip(category_name), processed |-> 0, successful |-> 0,
     failed |-> 0, errors |-> <<>>]

\* one pass of the loop body for resource d: st holds results, the collection
\* and the local title, cr is category_results.  None.strip() raises inside
\* the try; the handler formats title[:50], which raises in its turn when
\* title was never assigned and leaves process_ttu_resources
process_resource(st, cr, category_name, d, env) ==
    LET counted == [st EXCEPT !.total_processed = @ + 1]
        seen == [cr EXCEPT !.processed = @ + 1]
        tv == DictGet(d, "title", <<>>)
        title == IF tv = None THEN st.title ELSE Strip(tv)
        raises == None \in {tv, DictGet(d, "text", <<>>), DictGet(d, "url", <<>>)}
        cut == SubSeq(title, 1, Min(TitleCut, Len(title)))
        r == uploaded_resource(category_name, d)
        s == store_resource_with_embedding(st.resources, st.next_id, r, env)
    IN  IF raises
        THEN IF "title" \in DOMAIN d /\ title = Unbound
             THEN [st |-> [counted EXCEPT !.failed = @ + 1, !.raised = TRUE,
                                          !.outcomes = Append(@, "raised")],
                   cr |-> [seen EXCEPT !.failed = @ + 1]]
             ELSE [st |-> [counted EXCEPT !.title = title, !.failed = @ + 1,
                                          !.outcomes = Append(@, "error")],
                   cr |-> [seen EXCEPT !.failed = @ + 1,
                                       !.errors = Append(@, [kind |-> "Error processing",
                                           title |-> IF "title" \in DOMAIN d
                                                     THEN cut ELSE <<"u","n","k","n","o","w","n">>])]]
        ELSE IF ~has_required_fields(r)
        THEN [st |-> [counted EXCEPT !.title = title,
                                     !.outcomes = Append(@, "missing")],
              cr |-> [seen EXCEPT !.failed = @ + 1,
                                  !.errors = Append(@, [kind |-> "Missing required fields",
                                                        title |-> cut])]]
        ELSE IF s.stored
        THEN [st |-> [counted EXCEPT !.title = title, !.resources = s.resources,
                                     !.next_id = s.next_id, !.successful = @ + 1,
                                     !.outcomes = Append(@, "stored")],
              cr |-> [seen EXCEPT !.successful = @ + 1]]
        ELSE [st |-> [counted EXCEPT !.title = title, !.failed = @ + 1,
                                     !.outcomes = Append(@, "failed")],
              cr |-> [seen EXCEPT !.failed = @ + 1,
                                  !.errors = Append(@, [kind |-> "Failed to store",
                                                        title |-> cut])]]

\* for resource in resources, from resource i on
RECURSIVE process_category(_, _, _, _, _, _)
process_category(st, cr, category_name, dicts, envs, i) ==
    IF i > Len(dicts) \/ st.raised THEN [st |-> st, cr |-> cr]
    ELSE LET p == process_resource(st, cr, category_name, dicts[i], envs[i])
         IN  process_category(p.st, p.cr, category_name, dicts, envs, i + 1)

\* for category_name, resources in data.items(), from category c on:
\* category_results joins the details when its category is finished
RECURSIVE process_ttu_resources(_, _, _, _)
process_ttu_resources(st, data, envs, c) ==
    IF c > Len(data) \/ st.raised THEN st
    ELSE LET p == process_category([st EXCEPT !.total_categories = @ + 1],
                                   category_start(data[c].name), data[c].name,
                                   data[c].resources, envs[c], 1)
         IN  process_ttu_resources(
                 IF p.st.raised THEN p.st
                 ELSE [p.st EXCEPT !.details = Append(@, p.cr)],
                 data, envs, c + 1)

\* the uploaded files that still fit: a list of resources under every key
UploadedFiles ==
    { [c \in 1..Len(UploadedCategories) |->
          [name |-> UploadedCategories[c], resources |-> lists[c]]] :
      lists \in { ls \in [1..Len(UploadedCategories) -> Batches(UploadedDicts)] :
                    Len(ls[1]) + Len(ls[2]) <= MaxStored + 1 - next_id } }

\* whether store_resource_with_embedding returns a document for resource d
\* of the category under env (a resource whose extraction raises never gets there)
would_store(category_name, d, env) ==
    /\ None \notin {DictGet(d, "title", <<>>), DictGet(d, "text", <<>>), DictGet(d, "url", <<>>)}
    /\ store_resource_with_embedding(<<>>, 1, uploaded_resource(category_name, d), env).stored

\* POST /upload/json: process_ttu_resources over the file; an exception that
\* leaves it becomes HTTP 500 and the results are lost, the documents stored
\* until then stay.  A resource without title or url is counted in its
\* category only; one that could not be stored is counted in the category
\* and in results["failed"]
UploadJson ==
    /\ last = NoCall
    /\ next_id <= MaxStored
    /\ \E data \in UploadedFiles :
       \E envs \in { e \in [1..Len(data) -> Batches(StoreEnvs)] :
                       \A c \in 1..Len(data) : Len(e[c]) = Len(data[c].resources) } :
       \E r \in { process_ttu_resources(ttu_start(resources, next_id), data, envs, 1) } :
         /\ resources' = r.resources
         /\ next_id' = r.next_id
         /\ last' = [op |-> "process_ttu_resources", data |-> data,
                     store_ok |-> [c \in 1..Len(data) |->
                                     [i \in 1..Len(data[c].resources) |->
                                        would_store(data[c].name, data[c].resources[i],
                                                    envs[c][i])]],
                     first_id |-> next_id,
                     status |-> IF r.raised THEN 500 ELSE 200,
                     outcomes |-> r.outcomes,
                     total_processed |-> r.total_processed,
                     total_categories |-> r.total_categories,
                     successful |-> r.successful, failed |-> r.failed,
                     details |-> r.details]
    /\ UNCHANGED <<requests, embedding_model, GEMINI_AVAILABLE, mongodb_url, embed_log, relational>>

\* new contents handed to update_resource_in_mongodb
UpdateInputs == {
    [title |-> <<"G","y","m"," ","H","o","u","r","s">>, description |-> <<"H","o","u","r","s">>, url |-> <<"u","4">>,
     category |-> <<"I","n","f","o">>, tags |-> <<>>],
    [title |-> <<"G","y","m"," ","H","o","u","r","s">>, description |-> None, url |-> <<"u","4">>,
     category |-> <<"I","n","f","o">>, tags |-> <<>>] }

\* the positions of the documents with this _id (one at most)
PositionsOf(docs, resource_id) == { i \in 1..Len(docs) : docs[i]._id = resource_id }

\* mutant: $set without the embedding, which stays the one of the old text
update_doc_stale_embedding(old, r, embedding) ==
    mongodb_doc(old._id, r, old.embedding)

\* the document after {"$set": update_doc}: every field of update_doc replaced,
\* the embedding by the one of the new text
update_doc(old, r, embedding) ==
    mongodb_doc(old._id, r, embedding)

\* update_resource_in_mongodb(resource_id, title, description, url, ...): the
\* collection afterwards and the boolean returned: True when a document was
\* modified, False when none matched, nothing changed or anything raised
\* (encode, ObjectId(resource_id) of a malformed id, the store)
update_resource_in_mongodb(docs, resource_id, well_formed, r, env) ==
    LET e == generate_embedding(combined_text(r.title, r.description), env.encode)
        at == PositionsOf(docs, resource_id)
        updated == [i \in 1..Len(docs) |->
                      IF i \in at THEN update_doc(docs[i], r, e.value) ELSE docs[i]]
    IN  IF ~mongodb_url
        THEN [resources |-> docs, success |-> FALSE, connection |-> "none"]
        ELSE IF e.raised \/ ~well_formed \/ ~env.reachable
        THEN [resources |-> docs, success |-> FALSE, connection |-> "open"]
        ELSE [resources |-> updated, success |-> updated # docs, connection |-> "closed"]

\* delete_resource_from_mongodb(resource_id): the collection afterwards and the
\* boolean returned: True when a document was deleted
delete_resource_from_mongodb(docs, resource_id, well_formed, reachable) ==
    LET kept == SelectSeq(docs, LAMBDA d : d._id # resource_id) IN
    IF ~mongodb_url
    THEN [resources |-> docs, success |-> FALSE, connection |-> "none"]
    ELSE IF ~well_formed \/ ~reachable
    THEN [resources |-> docs, success |-> FALSE, connection |-> "open"]
    ELSE [resources |-> kept, success |-> kept # docs, connection |-> "closed"]

\* a caller runs update_resource_in_mongodb
UpdateResource ==
    /\ last = NoCall
    /\ \E resource_id \in 1..next_id, well_formed \in BOOLEAN, r \in UpdateInputs, env \in StoreEnvs :
         LET u == update_resource_in_mongodb(resources, resource_id, well_formed, r, env) IN
         /\ resources' = u.resources
         /\ last' = [op |-> "update_resource_in_mongodb", resource_id |-> resource_id,
                     well_formed |-> well_formed, title |-> r.title,
                     success |-> u.success, connection |-> u.connection,
                     known |-> PositionsOf(resources, resource_id) # {},
                     unchanged |-> u.resources = resources]
    /\ UNCHANGED <<requests, next_id, embedding_model, GEMINI_AVAILABLE, mongodb_url, embed_log, relational>>

\* PUT /resources/{resource_id}: update_resource.  Building the arguments of
\* update_resource_in_mongodb reads resource.owner_id, which ResourceUpdate
\* does not have: the AttributeError is caught by `except Exception` and
\* answered with HTTP 500 before the store is called
UpdateEndpoint ==
    /\ last = NoCall
    /\ \E resource_id \in 1..next_id, well_formed \in BOOLEAN, r \in UpdateInputs :
         last' = [op |-> "update_resource", resource_id |-> resource_id,
                  well_formed |-> well_formed, title |-> r.title,
                  status |-> 500, detail |-> "Error updating resource",
                  known |-> PositionsOf(resources, resource_id) # {},
                  unchanged |-> TRUE]
    /\ UNCHANGED <<requests, resources, next_id, embedding_model, GEMINI_AVAILABLE, mongodb_url, embed_log, relational>>

\* DELETE /resources/{resource_id}: delete_resource; HTTP 500 whenever
\* delete_resource_from_mongodb returned False
DeleteEndpoint ==
    /\ last = NoCall
    /\ \E resource_id \in 1..next_id, well_formed \in BOOLEAN, reachable \in BOOLEAN :
         LET d == delete_resource_from_mongodb(resources, resource_id, well_formed, reachable) IN
         /\ resources' = d.resources
         /\ last' = [op |-> "delete_resource", resource_id |-> resource_id,
                     well_formed |-> well_formed, reachable |-> reachable,
                     success |-> d.success, connection |-> d.connection,
                     status |-> IF d.success THEN 200 ELSE 500,
                     detail |-> IF d.success THEN "Resource deleted successfully"
                                ELSE "Failed to delete resource from MongoDB Atlas",
                     known |-> PositionsOf(resources, resource_id) # {},
                     unchanged |-> d.resources = resources]
    /\ UNCHANGED <<requests, next_id, embedding_model, GEMINI_AVAILABLE, mongodb_url, embed_log, relational>>

\* the service after start-up, with an empty collection
InitCatalog ==
    /\ resources = <<>>
    /\ next_id = 1
    /\ embedding_model \in BOOLEAN
    /\ GEMINI_AVAILABLE = FALSE
    /\ mongodb_url = TRUE
    /\ embed_log = <<>>
    /\ questions = <<>>
    /\ search_logs = <<>>
    /\ question_seq = 1
    /\ asked = <<>>
    /\ last = NoCall
    /\ requests = <<>>

NextCatalog ==
    \/ CreateResource
    \/ CreateBatch
    \/ BatchProcess
    \/ UploadJson
    \/ UpdateResource
    \/ UpdateEndpoint
    \/ DeleteEndpoint
    \/ Respond

SpecCatalog == InitCatalog /\ [][NextCatalog]_vars


----------------------------------------------------------------------------
(* The server process: every handler is a coroutine of one event loop *)

MaxInFlight == 3

\* the endpoints requested: POST /ask and, unrelated to it, GET /health
RequestKinds == {"ask_question", "health_check"}

\* where a request is while its coroutine holds the thread of the loop
OnTheLoop == {"ask_question", "generate_content", "commit", "health_check"}

\* uvicorn.run(app): one process, one event loop, one thread for all coroutines
EventLoopFree == \A i \in 1..Len(requests) : requests[i].at \notin OnTheLoop

\* a client sends a request; it waits in the socket until the loop takes it
SubmitRequest ==
    /\ Len(requests) < MaxInFlight
    /\ \E kind \in RequestKinds :
         requests' = Append(requests, [kind |-> kind, at |-> "submitted"])
    /\ UNCHANGED <<resources, next_id, embedding_model, GEMINI_AVAILABLE, mongodb_url,
                   embed_log, relational, last>>

\* the loop takes a waiting request and runs its handler: `async def
\* ask_question` and `async def health_check` run on the thread of the loop
StartHandlerOf(i) ==
    /\ requests[i].at = "submitted"
    /\ EventLoopFree
    /\ requests' = [requests EXCEPT ![i].at = requests[i].kind]
    /\ UNCHANGED <<resources, next_id, embedding_model, GEMINI_AVAILABLE, mongodb_url,
                   embed_log, relational, last>>

StartHandler == \E i \in 1..Len(requests) : StartHandlerOf(i)

\* await ask_question_with_ai(...) holds no await that suspends: the
\* coroutine goes on, on the same thread, into model.generate_content(prompt),
\* a synchronous call that returns when the AI service has answered
CallGenerateContent ==
    /\ \E i \in 1..Len(requests) :
         /\ requests[i].at = "ask_question"
         /\ GEMINI_AVAILABLE
         /\ requests' = [requests EXCEPT ![i].at = "generate_content"]
    /\ UNCHANGED <<resources, next_id, embedding_model, GEMINI_AVAILABLE, mongodb_url,
                   embed_log, relational, last>>

\* the AI service answers (or the call raises) and the handler goes on to
\* db.add(...) and db.commit(); without Gemini the answer is computed in place
ReachCommit ==
    /\ \E i \in 1..Len(requests) :
         /\ \/ requests[i].at = "generate_content"
            \/ requests[i].at = "ask_question" /\ ~GEMINI_AVAILABLE
         /\ requests' = [requests EXCEPT ![i].at = "commit"]
    /\ UNCHANGED <<resources, next_id, embedding_model, GEMINI_AVAILABLE, mongodb_url,
                   embed_log, relational, last>>

\* the handler returns, the response is sent and the loop is free again
FinishHandler ==
    /\ \E i \in 1..Len(requests) :
         /\ requests[i].at \in {"commit", "health_check"}
         /\ requests' = [requests EXCEPT ![i].at = "done"]
    /\ UNCHANGED <<resources, next_id, embedding_model, GEMINI_AVAILABLE, mongodb_url,
                   embed_log, relational, last>>

InitLoop ==
    /\ resources = <<>>
    /\ next_id = 1
    /\ embedding_model \in BOOLEAN
    /\ GEMINI_AVAILABLE \in BOOLEAN
    /\ mongodb_url = TRUE
    /\ embed_log = <<>>
    /\ questions = <<>>
    /\ search_logs = <<>>
    /\ question_seq = 1
    /\ asked = <<>>
    /\ last = NoCall
    /\ requests = <<>>

NextLoop ==
    \/ SubmitRequest
    \/ StartHandler
    \/ CallGenerateContent
    \/ ReachCommit
    \/ FinishHandler

SpecLoop == InitLoop /\ [][NextLoop]_vars
----------------------------------------------------------------------------
(* Claims about search_similar_resources, checked under Spec *)

QueryLower == Strip(Lower(last.query))

NoNullFields == \A i \in 1..Len(resources) : ~ScoringRaises(resources[i])

\* C1: for every query, catalog and limit >= 0, search_similar_resources
\* returns at most `limit` results, every similarity_score lies in [0,1], and
\* the results are in non-increasing order of raw relevance score.
C1_SearchBoundedAndOrdered ==
    last.op = "search" =>
        /\ Len(last.results) <= last.limit
        /\ \A i \in 1..Len(last.results) :
             /\ last.results[i].similarity_score.den > 0
             /\ 0 <= last.results[i].similarity_score.num
             /\ last.results[i].similarity_score.num <= last.results[i].similarity_score.den
        /\ \A i, j \in 1..Len(last.results) :
             i < j => last.results[i].raw >= last.results[j].raw

\* C1 witness: a search filled its limit of two with results of different raw
\* scores, the first of them above 20 (so the clamp to 1.0 acted).
C1_Witness ==
    /\ last.op = "search"
    /\ last.limit = 2
    /\ Len(last.results) = 2
    /\ last.results[1].raw > 20
    /\ last.results[1].raw > last.results[2].raw
    /\ Len(resources) > 2

\* C2: the result is the top-`limit` prefix of the ranking of all catalog
\* documents: no catalog document left out of the result has a strictly higher
\* raw score than a returned one.  (Stated for catalogs whose documents all
\* have their text fields, so that scoring never raises.)
C2_NoBetterDocumentLeftOut ==
    (last.op = "search" /\ NoNullFields) =>
        \A i \in 1..Len(resources), j \in 1..Len(last.results) :
            (\A k \in 1..Len(last.results) : last.results[k].id # resources[i]._id)
                => RelevanceScore(resources[i], QueryLower) <= last.results[j].raw

\* C3: when no query word maps to a category and no key term occurs in the
\* query, the search returns the catalog documents whose title, description or
\* category contains the lower-cased query, up to `limit` of them; an empty
\* query against a non-empty catalog returns min(limit, catalog size) documents.
\* (Stated for a configured, reachable store whose documents all have their
\* text fields.)
C3_FallbackReturnsSubstringMatches ==
    (/\ last.op = "search"
     /\ mongodb_url /\ last.reachable /\ NoNullFields
     /\ MappedWords(QueryLower) = <<>>
     /\ TermsInQuery(QueryLower) = <<>>) =>
        LET matching == {i \in 1..Len(resources) :
                            \/ Contains(Lower(resources[i].title), QueryLower)
                            \/ Contains(Lower(resources[i].description), QueryLower)
                            \/ Contains(Lower(resources[i].category), QueryLower)}
        IN  /\ Len(last.results) = Min(last.limit, Cardinality(matching))
            /\ \A j \in 1..Len(last.results) :
                 \E i \in matching : resources[i]._id = last.results[j].id

----------------------------------------------------------------------------
(* Claims about ask_question_with_ai, checked under SpecAsk *)

QuestionLower == Strip(Lower(last.question))

\* C4: for every question classified as a greeting (its lower-cased text
\* contains a greeting phrase), ask_question_with_ai never calls the scorer and
\* returns an empty relevant_resources list.
C4_GreetingNeverSearches ==
    (last.op = "ask" /\ ContainsAny(QuestionLower, greetings)) =>
        /\ last.scorer_calls = <<>>
        /\ last.relevant_resources = <<>>

\* C5: for every question whose lower-cased text contains none of the campus
\* resource indicator phrases, the scorer is not called and relevant_resources
\* is empty.
C5_NoIndicatorNoSearch ==
    (last.op = "ask" /\ ~ContainsAny(QuestionLower, campus_resource_indicators)) =>
        /\ last.scorer_calls = <<>>
        /\ last.relevant_resources = <<>>

\* C5 witness: a question without an indicator was asked and answered without
\* resources although the scorer, had it run, would have returned some.
C5_Witness ==
    /\ last.op = "ask"
    /\ ~ContainsAny(QuestionLower, campus_resource_indicators)
    /\ last.scorer_calls = <<>>
    /\ last.relevant_resources = <<>>
    /\ search_similar_resources(last.question, AskLimit, AskThreshold, TRUE) # <<>>

\* C6: for a question with a resource indicator and a word that maps to
\* category C, against a catalog whose only document has category C, ask
\* returns that document with raw score >= 20 and similarity_score 1.0.
\* (Stated for a configured, reachable store.)
C6_CategoryDocumentReturned ==
    (/\ last.op = "ask"
     /\ mongodb_url
     /\ last.scorer_calls # <<>>
     /\ last.scorer_calls[1].reachable
     /\ Len(resources) = 1
     /\ \E i \in 1..Len(MappedWords(QuestionLower)) :
          resources[1].category = category_mappings[MappedWords(QuestionLower)[i]]) =>
        /\ Len(last.relevant_resources) = 1
        /\ last.relevant_resources[1].id = resources[1]._id
        /\ last.relevant_resources[1].raw >= 20
        /\ last.relevant_resources[1].similarity_score.num
             = last.relevant_resources[1].similarity_score.den

\* C10: during an ask, whenever the AI call raises or returns an empty
\* response, the answer returned is the one generate_simple_answer produces for
\* the same question and candidates.
C10_FailedAIFallsBackToSimpleAnswer ==
    (/\ last.op = "ask"
     /\ last.ai_calls # <<>>
     /\ last.ai_calls[1].outcome \in {"raise", "empty"}) =>
        last.answer = generate_simple_answer(last.question, last.relevant_resources)

----------------------------------------------------------------------------
(* Claims about generate_embedding, checked under SpecEmbed *)

IsUnitVector384(v) ==
    /\ Len(v.num) = EmbeddingDim
    /\ v.den > 0
    /\ \A i \in 1..Len(v.num) : 0 <= v.num[i] /\ v.num[i] <= v.den

\* C7: with no embedding model configured, generate_embedding(t) returns for
\* every text t a vector of exactly 384 components, each in [0,1], and two
\* calls with the same t return identical vectors.
C7_FallbackEmbeddingShapeAndDeterminism ==
    ~embedding_model =>
        /\ \A i \in 1..Len(embed_log) :
             ~embed_log[i].raised /\ IsUnitVector384(embed_log[i].value)
        /\ \A i, j \in 1..Len(embed_log) :
             embed_log[i].text = embed_log[j].text => embed_log[i].value = embed_log[j].value

\* C7 witness: without a model, the same non-empty text was embedded twice.
C7_Witness ==
    /\ ~embedding_model
    /\ Len(embed_log) = 2
    /\ embed_log[1].text = embed_log[2].text
    /\ embed_log[1].text # <<>>
    /\ \E i \in 1..EmbeddingDim : embed_log[2].value.num[i] > 0

\* C8: generate_embedding("") returns the all-zero vector of length 384 on
\* both paths, with a model loaded and with the digest fallback.
C8_EmptyTextIsZeroVector ==
    \A i \in 1..Len(embed_log) :
        embed_log[i].text = <<>> =>
            /\ ~embed_log[i].raised
            /\ Len(embed_log[i].value.num) = EmbeddingDim
            /\ \A k \in 1..Len(embed_log[i].value.num) : embed_log[i].value.num[k] = 0

\* C9: generate_embedding never raises: when the loaded model's encode call
\* fails, it still returns a vector of length 384.
C9_EmbeddingNeverRaises ==
    \A i \in 1..Len(embed_log) :
        /\ ~embed_log[i].raised
        /\ Len(embed_log[i].value.num) = EmbeddingDim

----------------------------------------------------------------------------
(* Claims about generate_simple_answer, checked under SpecSimple *)

EducationalTemplates == {
    "educational: study", "educational: time management", "educational: exam",
    "educational: academic", "educational: science", "educational: writing",
    "educational: general" }

\* C11: generate_simple_answer never raises and returns a non-empty answer for
\* every question and every candidate list, candidates without a description
\* included; for a question that is no greeting and has no candidates the
\* answer is one of the educational templates and is longer than 100 characters.
C11_SimpleAnswerTotal ==
    last.op = "generate_simple_answer" =>
        /\ ~last.raised
        /\ last.length > 0
        /\ (/\ ~ContainsAny(Strip(Lower(last.question)), greetings)
            /\ last.resources = <<>>) =>
               /\ last.answer.text \in EducationalTemplates
               /\ last.length > 100

\* a listing was built from candidates one of which has no description
C11_Witness ==
    /\ last.op = "generate_simple_answer"
    /\ last.answer.text = "resources"
    /\ \E i \in 1..Len(last.resources) : last.resources[i].description = None
    /\ ~last.raised

----------------------------------------------------------------------------
(* Claims about the ask endpoint, checked under SpecEndpoint *)

C13_OneSearchLogPerRequest ==
    [][ /\ Len(search_logs') >= Len(search_logs)
        /\ SubSeq(search_logs', 1, Len(search_logs)) = search_logs
        /\ (last' # last /\ last'.op = "ask_endpoint") =>
              /\ Len(search_logs') = Len(search_logs) + 1
              /\ search_logs'[Len(search_logs')].query = last'.question
              /\ search_logs'[Len(search_logs')].user_id = last'.user_id
              /\ search_logs'[Len(search_logs')].results_count =
                     IF last'.failed THEN 0 ELSE Len(last'.relevant_resources) ]_vars

\* the same user asked the same question twice: the first request failed, the
\* second returned a candidate, and each left its row
C13_Witness ==
    /\ Len(asked) = 2
    /\ Len(search_logs) = 2
    /\ asked[1].question = asked[2].question
    /\ asked[1].user_id = asked[2].user_id
    /\ asked[1].failed
    /\ ~asked[2].failed
    /\ asked[2].relevant_resources # <<>>
    /\ search_logs[1].results_count = 0
    /\ search_logs[2].results_count = Len(asked[2].relevant_resources)

\* C15: in every ask, the conversation context of the asking user is assembled
\* and passed to the answer step: for a user with stored turns the answer step
\* receives a non-empty context block.
C15_StoredTurnsReachSynthesis ==
    (/\ last.op = "ask_endpoint"
     /\ ~last.failed
     /\ last.user_id \in UserIds
     /\ last.stored_turns > 0) =>
        last.context # <<>>

----------------------------------------------------------------------------
(* Claims about the conversation history, checked under SpecHistory *)

\* the rows of one user in a table, oldest first
RowsOfUser(rows, user_id) == SelectSeq(rows, LAMBDA q : q.user_id = user_id)

\* the rows of the other users in a table
RowsOfOthers(rows, user_id) == SelectSeq(rows, LAMBDA q : q.user_id # user_id)

\* the n newest rows of the rows given oldest first
NewestRows(rows, n) == SubSeq(rows, Len(rows) - Min(n, Len(rows)) + 1, Len(rows))

\* the table questions is kept in the order of created_at
QuestionsInCreationOrder ==
    \A i \in 1..Len(questions) : \A j \in 1..Len(questions) :
        i < j => questions[i].created_at < questions[j].created_at

\* C14: for a user with more than `limit` stored turns (the store answering),
\* get_user_conversation_context renders exactly `limit` turns, the user's
\* most recent ones, oldest first, and never a turn of another user.
C14_ContextIsTheNewestTurnsInOrder ==
    (/\ last.op = "get_user_conversation_context"
     /\ last.db_ok
     /\ Len(RowsOfUser(questions, last.user_id)) > last.limit) =>
        LET newest == NewestRows(RowsOfUser(questions, last.user_id), last.limit) IN
        /\ QuestionsInCreationOrder
        /\ Len(last.context) = last.limit
        /\ last.context = [i \in 1..last.limit |-> RenderedTurn(newest[i])]

\* two turns with different questions were rendered for a user with three
C14_Witness ==
    /\ last.op = "get_user_conversation_context"
    /\ last.db_ok
    /\ last.limit = 2
    /\ Len(RowsOfUser(questions, last.user_id)) = 3
    /\ Len(last.context) = 2
    /\ last.context[1].user # last.context[2].user

\* C16: cleanup_old_conversation_history(user, keep) (the store answering)
\* deletes exactly that user's turns that are not among the `keep` most
\* recent: afterwards the user has min(N, keep) turns, the most recent ones,
\* and every turn of every other user is still there.
C16_CleanupKeepsTheNewest ==
    (last.op = "cleanup_old_conversation_history" /\ last.db_ok) =>
        LET mine == RowsOfUser(last.before, last.user_id) IN
        /\ QuestionsInCreationOrder
        /\ RowsOfUser(questions, last.user_id) = NewestRows(mine, last.keep_messages)
        /\ Len(RowsOfUser(questions, last.user_id)) = Min(Len(mine), last.keep_messages)
        /\ RowsOfOthers(questions, last.user_id) = RowsOfOthers(last.before, last.user_id)

\* a turn of the user was deleted, one kept, and another user has a newer turn
C16_Witness ==
    /\ last.op = "cleanup_old_conversation_history"
    /\ last.db_ok
    /\ last.keep_messages = 1
    /\ Len(RowsOfUser(last.before, last.user_id)) = 2
    /\ Len(RowsOfUser(questions, last.user_id)) = 1
    /\ Len(RowsOfOthers(questions, last.user_id)) = 1
    /\ RowsOfOthers(questions, last.user_id)[1].created_at
           > RowsOfUser(questions, last.user_id)[1].created_at

----------------------------------------------------------------------------
(* Claims about the catalog operations, checked under SpecCatalog *)

\* C18: after any sequence of ingestion operations (JSON upload, single
\* create, batch create, batch_process_resources), every persisted document
\* has a non-empty title and a non-empty url.
C18_PersistedDocumentsHaveTitleAndUrl ==
    \A i \in 1..Len(resources) :
        /\ resources[i].title # <<>>
        /\ resources[i].url # <<>>

\* C19: after any sequence of successful store_resource_with_embedding and
\* update_resource_in_mongodb operations, the embedding of each stored document
\* has exactly 384 components and is what generate_embedding returns for its
\* current title, a space and its current description.
C19_EmbeddingFollowsText ==
    \A i \in 1..Len(resources) :
        /\ Len(resources[i].embedding.num) = EmbeddingDim
        /\ \E encode \in EncodeOutcomes :
              LET e == generate_embedding(
                           combined_text(resources[i].title, resources[i].description), encode)
              IN  ~e.raised /\ e.value = resources[i].embedding

\* an update has just given a stored document a new title
C19_Witness ==
    /\ last.op = "update_resource_in_mongodb"
    /\ last.success
    /\ \E i \in 1..Len(resources) :
          /\ resources[i]._id = last.resource_id
          /\ resources[i].title = last.title
          /\ resources[i].title = <<"G","y","m"," ","H","o","u","r","s">>
          /\ resources[i].url = <<"u","4">>
          /\ resources[i].category = <<"I","n","f","o">>
          /\ resources[i].description = None

\* C20: updating or deleting a resource whose id does not exist leaves the
\* store unchanged and is reported as not-found: a boolean failure from the
\* store function, HTTP 404 from the endpoint, not an internal error.
C20_UnknownIdIsNotFound ==
    /\ (last.op = "update_resource_in_mongodb" /\ ~last.known) =>
           (~last.success /\ last.unchanged)
    /\ (last.op \in {"update_resource", "delete_resource"} /\ ~last.known) =>
           (last.unchanged /\ last.status = 404)


----------------------------------------------------------------------------
(* Claims about the JSON upload, checked under SpecCatalog *)

\* the resources of the uploaded file in the order of processing, each with
\* its category index and whether the store would accept it
UploadedItems ==
    LET flat(c) == [i \in 1..Len(last.data[c].resources) |->
                      [c |-> c, d |-> last.data[c].resources[i],
                       store_ok |-> last.store_ok[c][i]]]
    IN  flat(1) \o flat(2)

\* the title or the url of the resource is absent, null or blank
LacksTitleOrUrl(d) ==
    \E key \in {"title", "url"} :
        \/ DictGet(d, key, <<>>) = None
        \/ Strip(DictGet(d, key, <<>>)) = <<>>

\* C21: in process_ttu_resources an item without title or url is not stored
\* and leaves an error message in its category, an item whose storage fails
\* is recorded as failed, and every later item of the file, in the same and
\* in the later categories, is still processed.
C21_UploadIsolatesEveryItem ==
    last.op = "process_ttu_resources" =>
        LET items == UploadedItems
            of_category(c) == { k \in 1..Len(items) : items[k].c = c }
        IN  /\ Len(last.outcomes) = Len(items)
            /\ Len(last.details) = Len(last.data)
            /\ \A k \in 1..Len(items) :
                   IF LacksTitleOrUrl(items[k].d)
                   THEN last.outcomes[k] \in {"missing", "error"}
                   ELSE last.outcomes[k] = IF items[k].store_ok THEN "stored" ELSE "failed"
            /\ \A c \in 1..Len(last.data) :
                   Len(last.details[c].errors)
                       = Cardinality({ k \in of_category(c) : last.outcomes[k] # "stored" })
            /\ Len(resources) - (last.first_id - 1)
                   = Cardinality({ k \in 1..Len(items) : last.outcomes[k] = "stored" })

\* the sum of field f over the category entries of the result
RECURSIVE SumOver(_, _)
SumOver(details, f) ==
    IF details = <<>> THEN 0 ELSE Head(details)[f] + SumOver(Tail(details), f)

\* C29: in the result of process_ttu_resources the counters are consistent:
\* total_processed = successful + failed at the top level, processed =
\* successful + failed in each category entry, and the top-level counters are
\* the sums of the per-category counters.
C29_UploadCountersConsistent ==
    (last.op = "process_ttu_resources" /\ last.status = 200) =>
        /\ last.total_processed = last.successful + last.failed
        /\ \A c \in 1..Len(last.details) :
               last.details[c].processed
                   = last.details[c].successful + last.details[c].failed
        /\ last.total_processed = SumOver(last.details, "processed")
        /\ last.successful = SumOver(last.details, "successful")
        /\ last.failed = SumOver(last.details, "failed")

----------------------------------------------------------------------------
(* Claims about the server process, checked under SpecLoop *)

\* C22: while one ask request is blocked in a slow call of the AI service,
\* an unrelated request that was submitted can still start (and then run to
\* its end): a blocking AI call does not stall the other requests.
C22_BlockedAskStallsNobody ==
    \A i \in 1..Len(requests) : \A j \in 1..Len(requests) :
        (requests[i].at = "generate_content" /\ requests[j].at = "submitted")
            => ENABLED StartHandlerOf(j)

----------------------------------------------------------------------------
(* Further claims about ask_question_with_ai, checked under SpecAsk *)

\* the search of the ask met a store that is not configured, cannot be
\* reached, or hands out a document on which the scoring raises
SearchFailed(call) ==
    LET docs == FindDocs(Strip(Lower(call.query)), call.limit)
    IN  \/ ~mongodb_url
        \/ ~call.reachable
        \/ \E i \in 1..Len(docs) : ScoringRaises(docs[i])

\* C23: when the document store is not configured, not reachable or fails
\* during the search, search_similar_resources returns the empty list, and
\* the ask that triggered the search still returns an answer, with an empty
\* candidate list.
C23_FailedSearchIsAnEmptyList ==
    (/\ last.op = "ask"
     /\ last.scorer_calls # <<>>
     /\ SearchFailed(last.scorer_calls[1])) =>
        /\ search_similar_resources(last.question, AskLimit, AskThreshold,
                                    last.scorer_calls[1].reachable) = <<>>
        /\ last.relevant_resources = <<>>
        /\ last.answer # NoAnswer
        /\ last.answer.listed = <<>>

\* C23 witness: an ask searched a store that could not be reached while the
\* collection held a document the search would have returned, and was
\* answered without candidates.
C23_Witness ==
    /\ last.op = "ask"
    /\ last.scorer_calls # <<>>
    /\ mongodb_url
    /\ ~last.scorer_calls[1].reachable
    /\ search_similar_resources(last.question, AskLimit, AskThreshold, TRUE) # <<>>
    /\ last.relevant_resources = <<>>
    /\ last.answer # NoAnswer

----------------------------------------------------------------------------
(* Further claims about search_similar_resources, checked under Spec *)

\* the stored document a result was made from
DocumentOf(result) == resources[CHOOSE i \in 1..Len(resources) : resources[i]._id = result.id]

\* the raw score as the claim words it: 20 when some word of the query maps to
\* the category of the document, and for each key term that occurs in the
\* query 10, 5 and 3 for the title, the description and the tags holding it
ClaimedRawScore(doc, query_lower) ==
    LET words == { Split(query_lower)[i] : i \in 1..Len(Split(query_lower)) }
        tracked == { t \in { key_terms[i] : i \in 1..Len(key_terms) } : Contains(query_lower, t) }
    IN  (IF \E w \in words : /\ w \in DOMAIN category_mappings
                             /\ Lower(category_mappings[w]) = Lower(doc.category)
         THEN 20 ELSE 0)
      + 10 * Cardinality({ t \in tracked : Contains(Lower(doc.title), t) })
      + 5 * Cardinality({ t \in tracked : Contains(Lower(doc.description), t) })
      + 3 * Cardinality({ t \in tracked : Contains(Lower(Join(doc.tags)), t) })

\* C24: the raw score of each scored candidate is 20 if some word of the query
\* maps to its category (once, however many words do), plus 10, 5 and 3 for
\* each key term of the query found in title, description and tags; candidates
\* with raw score 0 are discarded; similarity_score = min(raw / 20, 1.0), so
\* a higher raw score never yields a lower similarity_score.
C24_ScoreIsCategoryPlusTerms ==
    last.op = "search" =>
        /\ \A j \in 1..Len(last.results) :
             /\ last.results[j].raw = ClaimedRawScore(DocumentOf(last.results[j]), QueryLower)
             /\ last.results[j].raw > 0
             /\ last.results[j].similarity_score
                    = [num |-> Min(last.results[j].raw, 20), den |-> 20]
        /\ \A i, j \in 1..Len(last.results) :
             last.results[i].raw >= last.results[j].raw
                 => last.results[i].similarity_score.num * last.results[j].similarity_score.den
                        >= last.results[j].similarity_score.num * last.results[i].similarity_score.den
        /\ (mongodb_url /\ last.reachable /\ NoNullFields) =>
               \A i \in 1..Len(resources) :
                   ClaimedRawScore(resources[i], QueryLower) = 0
                       => \A j \in 1..Len(last.results) : last.results[j].id # resources[i]._id

\* C24 witness: the query has two words that map to the category of a
\* returned document, whose raw score is 20 for the category, counted once,
\* and 5 for the one key term in its description; its similarity_score is 1.0.
C24_Witness ==
    /\ last.op = "search"
    /\ Len(MappedWords(QueryLower)) = 2
    /\ \E j \in 1..Len(last.results) :
         /\ last.results[j].raw = 25
         /\ last.results[j].similarity_score = [num |-> 20, den |-> 20]

\* C25: no candidate returned by search_similar_resources has a
\* similarity_score below the minimum score the caller asked for
\* (score_threshold, in twentieths like the scores).
C25_NoResultBelowThreshold ==
    last.op = "search" =>
        \A j \in 1..Len(last.results) :
            last.results[j].similarity_score.num * 20
                >= last.score_threshold * last.results[j].similarity_score.den

\* C26: answer selection puts the greeting first: a question containing a
\* greeting phrase gets the greeting reply (the welcome text without Gemini,
\* the greeting prompt without a resource listing with Gemini) even when it
\* holds a resource indicator and candidates were found; only a question
\* without greeting gets the resource answer when there are candidates and
\* the educational answer when there are none.
C26_GreetingComesFirst ==
    last.op = "ask" =>
        LET ids == ResourceIds(last.relevant_resources)
            kind == IF ContainsAny(QuestionLower, greetings) THEN "greeting"
                    ELSE IF last.relevant_resources # <<>> THEN "resources"
                    ELSE "educational"
        IN  IF GEMINI_AVAILABLE
            THEN /\ last.ai_calls # <<>>
                 /\ last.ai_calls[1].model = "gemini-2.0-flash-exp"
                 /\ last.ai_calls[1].prompt = kind
                 /\ last.ai_calls[1].outcome # "raise" =>
                        /\ last.answer.by = "gemini-2.0-flash-exp"
                        /\ last.answer.listed = IF kind = "resources" THEN ids ELSE <<>>
            ELSE /\ last.answer.by = "generate_simple_answer"
                 /\ last.answer.listed = IF kind = "resources" THEN ids ELSE <<>>
                 /\ kind = "greeting" => last.answer.text = "greeting"
                 /\ kind = "resources" => last.answer.text = "resources"
                 /\ kind = "educational" => last.answer.text \in EducationalTemplates

\* C26 witness: without Gemini, a question with a greeting phrase and a
\* resource indicator was asked, candidates were found, and the answer is the
\* welcome text, listing none of them.
C26_Witness ==
    /\ last.op = "ask"
    /\ ~GEMINI_AVAILABLE
    /\ ContainsAny(QuestionLower, greetings)
    /\ ContainsAny(QuestionLower, campus_resource_indicators)
    /\ last.relevant_resources # <<>>
    /\ last.answer.text = "greeting"
    /\ last.answer.listed = <<>>

----------------------------------------------------------------------------
(* Further claims about the catalog operations, checked under SpecCatalog *)

\* C27: every connection to the document store that an operation opens is
\* closed before the operation returns, on the success path and on every
\* failure path after the connection was opened.
C27_OpenedConnectionsAreClosed ==
    last.op \in {"create_resource", "update_resource_in_mongodb", "delete_resource"} =>
        last.connection \in {"none", "closed"}

\* the document with its missing description and category read as empty text
WithEmptyForNull(doc) ==
    [doc EXCEPT !.description = OrEmpty(@), !.category = OrEmpty(@)]

\* C28: a document stored without description or without category is scored
\* as if the missing field were empty text and does not keep
\* search_similar_resources from returning the other matching documents.
\* (Stated for a configured, reachable store.)
C28_NullFieldsScoreAsEmpty ==
    (last.op = "search" /\ mongodb_url /\ last.reachable) =>
        LET docs == FindDocs(QueryLower, last.limit)
            read == [i \in 1..Len(docs) |-> WithEmptyForNull(docs[i])]
            best == TakeBest(SortByScore(ScoredDocs(read, QueryLower)), last.limit)
        IN  /\ Len(last.results) = Len(best)
            /\ \A i \in 1..Len(best) :
                 /\ last.results[i].id = best[i].doc._id
                 /\ last.results[i].raw = best[i].score

\* C30: a request to the update endpoint for an existing resource with a
\* valid patch succeeds: the stored document has the patched fields and the
\* updated resource is returned.  (The patches of the model name every text
\* field, so no field is left for the patch not to name.)
C30_UpdateOfExistingResourceSucceeds ==
    (last.op = "update_resource" /\ last.known /\ last.well_formed) =>
        /\ last.status = 200
        /\ \E i \in 1..Len(resources) :
             /\ resources[i]._id = last.resource_id
             /\ resources[i].title = last.title
====
